---------------------------- MODULE Imports_proof ----------------------------
(***************************************************************************)
(* Proofs about Imports, for any program.  The invariant says of each      *)
(* parse that is under way, and of each one whose C sources are written,   *)
(* what its tables hold: only definitions of the file and of files that it *)
(* imports, directly or not, and all those that it has come past.  What    *)
(* the innermost parse has dealt with has been dealt with by the others,   *)
(* but for the import that they wait for.                                  *)
(***************************************************************************)
EXTENDS Imports, FiniteSetTheorems, WellFoundedInduction, SequenceTheorems, TLAPS

-----------------------------------------------------------------------------
(* Induction. *)

\* A set of numbers that is not empty has a smallest one.
LEMMA Smallest ==
  ASSUME NEW S \in SUBSET Nat, S # {}
  PROVE  \E m \in S : \A k \in S : m <= k
<1>. DEFINE R == {ss \in Nat \X Nat : ss[1] < ss[2]}
<1>1. IsWellFoundedOn(R, Nat)
  BY NatLessThanWellFounded, Zenon DEF OpToRel
<1>2. \A m, k \in Nat : k < m => <<k, m>> \in R
  OBVIOUS
<1>. HIDE DEF R
<1>3. \E x \in S : \A y \in S : ~ (<<y, x>> \in R)
  BY <1>1, WFMin, Zenon
<1>4. PICK m \in S : \A y \in S : ~ (<<y, m>> \in R)
  BY <1>3, Zenon
<1>5. m \in Nat /\ \A k \in S : k \in Nat
  OBVIOUS
<1>6. ASSUME NEW k \in S, ~(m <= k)
      PROVE  FALSE
  <2>1. k \in Nat /\ m \in Nat /\ k < m
    BY <1>5, <1>6
  <2>2. <<k, m>> \in R
    BY <2>1, <1>2
  <2>. QED
    BY <2>2, <1>4
<1>. QED
  BY <1>6

\* What holds of 0, and of n + 1 if it holds of n, holds of all numbers.
LEMMA Induction ==
  ASSUME NEW S, 0 \in S, \A n \in Nat : n \in S => n + 1 \in S
  PROVE  \A n \in Nat : n \in S
<1>. SUFFICES ASSUME NEW n \in Nat, n \notin S
              PROVE  FALSE
  OBVIOUS
<1>. DEFINE T == Nat \ S
<1>1. PICK m \in T : \A k \in T : m <= k
  <2>1. T \in SUBSET Nat /\ T # {}
    OBVIOUS
  <2>. HIDE DEF T
  <2>. QED
    BY <2>1, Smallest
<1>2. m \in Nat /\ m # 0 /\ m - 1 \in Nat /\ m - 1 \in S
  BY <1>1
<1>. QED
  BY <1>2, <1>1

-----------------------------------------------------------------------------
(* FlattenSeq. *)

\* The function that FlattenSeq builds, on a beginning of the sequence.
Flattening(f, ss, n) ==
  f = [i \in 1 .. n |-> IF i = 1 THEN ss[i] ELSE f[i - 1] \o ss[i]]

\* There is a function that joins the first sequences, for every number of them.
LEMMA FlatteningExists ==
  ASSUME NEW ss
  PROVE  \A n \in Nat : \E f : Flattening(f, ss, n)
<1> DEFINE P == {n \in Nat : \E f : Flattening(f, ss, n)}
<1>1. 0 \in P
  <2> DEFINE f == [i \in 1 .. 0 |-> 0]
  <2>1. Flattening(f, ss, 0)
    BY DEF Flattening
  <2> QED BY <2>1
<1>2. ASSUME NEW n \in Nat, n \in P PROVE n + 1 \in P
  <2>1. PICK f : Flattening(f, ss, n)
    BY <1>2
  <2> DEFINE g == [i \in 1 .. n + 1 |-> IF i = 1 THEN ss[i] ELSE f[i - 1] \o ss[i]]
  <2>2. \A i \in 1 .. n : g[i] = f[i]
    <3> TAKE i \in 1 .. n
    <3>1. f[i] = IF i = 1 THEN ss[i] ELSE f[i - 1] \o ss[i]
      BY <2>1, Zenon DEF Flattening
    <3>2. i \in 1 .. n + 1
      OBVIOUS
    <3> QED BY <3>1, <3>2, Zenon
  <2>3. \A i \in 1 .. n + 1 : g[i] = IF i = 1 THEN ss[i] ELSE g[i - 1] \o ss[i]
    <3> TAKE i \in 1 .. n + 1
    <3>1. CASE i = 1
      BY <3>1
    <3>2. CASE i # 1
      <4>1. i - 1 \in 1 .. n
        BY <3>2
      <4>2. g[i - 1] = f[i - 1]
        BY <4>1, <2>2
      <4> QED BY <3>2, <4>2
    <3> QED BY <3>1, <3>2
  <2>4. g = [i \in 1 .. n + 1 |-> g[i]]
    OBVIOUS
  <2> HIDE DEF g
  <2>5. Flattening(g, ss, n + 1)
    BY <2>3, <2>4 DEF Flattening
  <2> QED BY <2>5
<1>3. \A n \in Nat : n \in P
  <2> HIDE DEF P
  <2> QED BY <1>1, <1>2, Induction
<1> QED BY <1>3

\* What FlattenSeq returns.
LEMMA FlattenSeqIs ==
  ASSUME NEW S, NEW ss \in Seq(S), Len(ss) # 0
  PROVE  \E f : Flattening(f, ss, Len(ss)) /\ FlattenSeq(ss) = f[Len(ss)]
<1> DEFINE f == CHOOSE f : f = [i \in 1 .. Len(ss) |-> IF i = 1 THEN ss[i] ELSE f[i - 1] \o ss[i]]
<1>1. \E g : g = [i \in 1 .. Len(ss) |-> IF i = 1 THEN ss[i] ELSE g[i - 1] \o ss[i]]
  <2>1. Len(ss) \in Nat
    OBVIOUS
  <2>2. \E g : Flattening(g, ss, Len(ss))
    BY <2>1, FlatteningExists
  <2> QED BY <2>2, Zenon DEF Flattening
<1>2. f = [i \in 1 .. Len(ss) |-> IF i = 1 THEN ss[i] ELSE f[i - 1] \o ss[i]]
  BY <1>1
<1>3. FlattenSeq(ss) = f[Len(ss)]
  BY DEF FlattenSeq
<1> QED BY <1>2, <1>3 DEF Flattening

\* Induction over the numbers up to N.
LEMMA InductionUpTo ==
  ASSUME NEW N \in Nat, NEW S, 1 <= N => 1 \in S,
         \A i \in 1 .. N - 1 : i \in S => i + 1 \in S
  PROVE  \A i \in 1 .. N : i \in S
<1> DEFINE P == {n \in Nat : n + 1 <= N => n + 1 \in S}
<1>1. 0 \in P
  OBVIOUS
<1>2. ASSUME NEW n \in Nat, n \in P PROVE n + 1 \in P
  <2> SUFFICES ASSUME n + 1 + 1 <= N PROVE n + 1 + 1 \in S
    OBVIOUS
  <2>1. n + 1 \in 1 .. N - 1 /\ n + 1 \in S
    BY <1>2
  <2> QED BY <2>1
<1>3. \A n \in Nat : n \in P
  <2> HIDE DEF P
  <2> QED BY <1>1, <1>2, Induction
<1> QED
  <2> TAKE i \in 1 .. N
  <2>1. i - 1 \in Nat /\ (i - 1) + 1 = i
    OBVIOUS
  <2>2. i - 1 \in P
    BY <2>1, <1>3
  <2> QED BY <2>1, <2>2

\* What is joined of sequences over S is one.
LEMMA FlatteningType ==
  ASSUME NEW S, NEW ss \in Seq(Seq(S)), NEW f, Flattening(f, ss, Len(ss))
  PROVE  \A i \in 1 .. Len(ss) : f[i] \in Seq(S)
<1> DEFINE P == {i \in 1 .. Len(ss) : f[i] \in Seq(S)}
<1>1. \A i \in 1 .. Len(ss) : f[i] = IF i = 1 THEN ss[i] ELSE f[i - 1] \o ss[i]
  BY Zenon DEF Flattening
<1>2. Len(ss) \in Nat /\ \A i \in 1 .. Len(ss) : ss[i] \in Seq(S)
  BY ElementOfSeq
<1>3. 1 <= Len(ss) => 1 \in P
  BY <1>1, <1>2
<1>4. ASSUME NEW i \in 1 .. Len(ss) - 1, i \in P PROVE i + 1 \in P
  <2> DEFINE j == i + 1
  <2>1. j \in 1 .. Len(ss) /\ j # 1 /\ j - 1 = i
    BY <1>2
  <2> HIDE DEF j
  <2>2. f[j] = f[i] \o ss[j]
    BY <1>1, <2>1
  <2>3. f[i] \in Seq(S) /\ ss[j] \in Seq(S)
    BY <1>2, <1>4, <2>1
  <2>4. f[j] \in Seq(S)
    BY <2>2, <2>3, ConcatProperties
  <2> QED BY <2>1, <2>4 DEF j
<1>5. \A i \in 1 .. Len(ss) : i \in P
  <2> HIDE DEF P
  <2> QED BY <1>2, <1>3, <1>4, InductionUpTo
<1> QED BY <1>5

\* FlattenSeq returns a sequence of what its sequences have.
LEMMA FlattenSeqType ==
  ASSUME NEW S, NEW ss \in Seq(Seq(S))
  PROVE  FlattenSeq(ss) \in Seq(S)
<1>1. CASE Len(ss) = 0
  <2>1. FlattenSeq(ss) = ss
    BY <1>1 DEF FlattenSeq
  <2>2. ss = <<>>
    BY <1>1, EmptySeq
  <2> QED BY <2>1, <2>2
<1>2. CASE Len(ss) # 0
  <2>1. PICK f : Flattening(f, ss, Len(ss)) /\ FlattenSeq(ss) = f[Len(ss)]
    BY <1>2, FlattenSeqIs
  <2>2. Len(ss) \in 1 .. Len(ss)
    BY <1>2
  <2> QED BY <2>1, <2>2, FlatteningType
<1> QED BY <1>1, <1>2

-----------------------------------------------------------------------------
(* Sequences whose elements are not known. *)

Sequence(s) == \E S : s \in Seq(S)

\* An element is appended, or the last one taken.
LEMMA Appended ==
  ASSUME NEW s, Sequence(s), NEW e
  PROVE  /\ Sequence(Append(s, e)) /\ Len(Append(s, e)) = Len(s) + 1
         /\ \A i \in 1 .. Len(s) : Append(s, e)[i] = s[i]
         /\ Append(s, e)[Len(s) + 1] = e
         /\ Len(s) \in Nat /\ DOMAIN s = 1 .. Len(s)
         /\ DOMAIN Append(s, e) = 1 .. Len(s) + 1
<1>1. PICK S : s \in Seq(S)
  BY DEF Sequence
<1>. DEFINE T == S \cup {e}
<1>2. s \in Seq(T) /\ e \in T
  BY <1>1
<1>. HIDE DEF T
<1>3. Append(s, e) \in Seq(T)
  BY <1>2
<1>. QED
  BY <1>2, <1>3 DEF Sequence

\* The last element is taken.
LEMMA Taken ==
  ASSUME NEW s, Sequence(s), s # <<>>
  PROVE  /\ Sequence(Front(s)) /\ Len(Front(s)) = Len(s) - 1
         /\ \A i \in 1 .. Len(s) - 1 : Front(s)[i] = s[i]
         /\ Len(s) \in Nat /\ Len(s) >= 1 /\ DOMAIN s = 1 .. Len(s)
<1>1. PICK S : s \in Seq(S)
  BY DEF Sequence
<1>2. Front(s) = [i \in 1 .. Len(s) - 1 |-> s[i]]
  BY <1>1 DEF Front
<1>3. Len(s) \in Nat /\ Len(s) >= 1 /\ DOMAIN s = 1 .. Len(s)
  BY <1>1, EmptySeq
<1>4. Front(s) \in Seq(S) /\ Len(Front(s)) = Len(s) - 1
  BY <1>1, <1>2, <1>3
<1>. QED
  BY <1>1, <1>2, <1>3, <1>4 DEF Sequence

\* The last element is replaced.
LEMMA Replaced ==
  ASSUME NEW s, Sequence(s), s # <<>>, NEW e
  PROVE  LET t == Append(Front(s), e) IN
         /\ Sequence(t) /\ Len(t) = Len(s) /\ t # <<>> /\ Last(t) = e /\ t[Len(t)] = e
         /\ \A i \in 1 .. Len(s) - 1 : t[i] = s[i]
         /\ Len(s) \in Nat /\ Len(s) >= 1
<1>. DEFINE f == Front(s)
            t == Append(f, e)
<1>1. /\ Sequence(f) /\ Len(f) = Len(s) - 1 /\ (\A i \in 1 .. Len(s) - 1 : f[i] = s[i])
      /\ Len(s) \in Nat /\ Len(s) >= 1
  BY Taken
<1>. HIDE DEF f
<1>2. /\ Sequence(t) /\ Len(t) = Len(f) + 1 /\ (\A i \in 1 .. Len(f) : t[i] = f[i])
      /\ t[Len(f) + 1] = e
  BY <1>1, Appended
<1>. HIDE DEF t
<1>3. Len(t) = Len(s) /\ t[Len(t)] = e /\ \A i \in 1 .. Len(s) - 1 : t[i] = s[i]
  BY <1>1, <1>2
<1>4. t # <<>>
  BY <1>1, <1>3
<1>. QED
  BY <1>1, <1>2, <1>3, <1>4 DEF Last, t, f

\* The elements, with one more.
LEMMA RangeAppended ==
  ASSUME NEW s, Sequence(s), NEW e
  PROVE  Range(Append(s, e)) = Range(s) \cup {e}
<1>1. /\ Len(Append(s, e)) = Len(s) + 1
      /\ \A i \in 1 .. Len(s) : Append(s, e)[i] = s[i]
      /\ Append(s, e)[Len(s) + 1] = e
      /\ Len(s) \in Nat /\ DOMAIN s = 1 .. Len(s)
      /\ DOMAIN Append(s, e) = 1 .. Len(s) + 1
  BY Appended
<1>2. 1 .. Len(s) + 1 = (1 .. Len(s)) \cup {Len(s) + 1}
  BY <1>1
<1>. QED
  BY <1>1, <1>2 DEF Range

-----------------------------------------------------------------------------
(* Tables. *)

\* The smallest number is in its set.
LEMMA MinIs ==
  ASSUME NEW S \in SUBSET Nat, S # {}
  PROVE  Min(S) \in S
BY Smallest DEF Min

\* The first definition of three.
LEMMA FirstOfThree ==
  ASSUME NEW a, NEW b, NEW c
  PROVE  FirstDefined(<<a, b, c>>) = IF a # Undefined THEN a ELSE IF b # Undefined THEN b ELSE c
<1>. DEFINE ds == <<a, b, c>>
            found == {i \in DOMAIN ds : ds[i] # Undefined}
<1>1. DOMAIN ds = {1, 2, 3} /\ ds[1] = a /\ ds[2] = b /\ ds[3] = c
  OBVIOUS
<1>2. FirstDefined(ds) = IF found = {} THEN Undefined ELSE ds[Min(found)]
  BY DEF FirstDefined
<1>. HIDE DEF ds
<1>3. found \in SUBSET Nat
  BY <1>1
<1>4. found # {} => Min(found) \in found /\ \A i \in found : Min(found) <= i
  BY <1>3, Smallest DEF Min
<1>5. \A i \in found : i \in {1, 2, 3} /\ ds[i] # Undefined
  BY <1>1
<1>6. \A i \in {1, 2, 3} : ds[i] # Undefined => i \in found
  BY <1>1
<1>. HIDE DEF found
<1>7. CASE a # Undefined
  <2>1. 1 \in found
    BY <1>1, <1>6, <1>7
  <2>2. Min(found) = 1
    BY <1>4, <1>5, <2>1
  <2>. QED
    BY <1>1, <1>2, <1>7, <2>1, <2>2 DEF ds
<1>8. CASE a = Undefined /\ b # Undefined
  <2>1. 2 \in found /\ 1 \notin found
    BY <1>1, <1>5, <1>6, <1>8
  <2>2. Min(found) = 2
    BY <1>4, <1>5, <2>1
  <2>. QED
    BY <1>1, <1>2, <1>8, <2>1, <2>2 DEF ds
<1>9. CASE a = Undefined /\ b = Undefined /\ c # Undefined
  <2>1. 3 \in found /\ 1 \notin found /\ 2 \notin found
    BY <1>1, <1>5, <1>6, <1>9
  <2>2. Min(found) = 3
    BY <1>4, <1>5, <2>1
  <2>. QED
    BY <1>1, <1>2, <1>9, <2>1, <2>2 DEF ds
<1>10. CASE a = Undefined /\ b = Undefined /\ c = Undefined
  <2>1. found = {}
    BY <1>1, <1>5, <1>10
  <2>. QED
    BY <1>2, <1>10, <2>1 DEF ds
<1>. QED
  BY <1>7, <1>8, <1>9, <1>10

\* What the imported contexts know is known to one of them.
LEMMA ImportedIs ==
  ASSUME NEW c, NEW table, Sequence(c.imports)
  PROVE  /\ \A name : name \in DOMAIN Imported(c, table) <=>
                        \E i \in DOMAIN c.imports : name \in DOMAIN c.imports[i][table]
         /\ \A name \in DOMAIN Imported(c, table) :
              \E i \in DOMAIN c.imports : /\ name \in DOMAIN c.imports[i][table]
                                          /\ Imported(c, table)[name] = c.imports[i][table][name]
<1>. DEFINE knowing(name) == {i \in DOMAIN c.imports : name \in DOMAIN c.imports[i][table]}
<1>1. DOMAIN Imported(c, table) = UNION {DOMAIN c.imports[i][table] : i \in DOMAIN c.imports}
  BY DEF Imported
<1>2. \A name \in DOMAIN Imported(c, table) :
        Imported(c, table)[name] = c.imports[Min(knowing(name))][table][name]
  BY DEF Imported
<1>3. ASSUME NEW name \in DOMAIN Imported(c, table)
      PROVE  Min(knowing(name)) \in knowing(name)
  <2>1. knowing(name) # {}
    BY <1>1
  <2>2. DOMAIN c.imports \subseteq Nat
    BY DEF Sequence
  <2>3. knowing(name) \in SUBSET Nat
    BY <2>2
  <2>. HIDE DEF knowing
  <2>. QED
    BY <2>1, <2>3, MinIs
<1>. QED
  BY <1>1, <1>2, <1>3

-----------------------------------------------------------------------------
(* What the texts say. *)

\* The function that Open builds, for the first n items.
OpenUpTo(f, text, n) ==
  f = [i \in 0 .. n |-> IF i = 0 THEN <<>> ELSE Opened(f[i - 1], text[i])]

\* There is one.
LEMMA OpenExists ==
  ASSUME NEW text
  PROVE  \A n \in Nat : \E f : OpenUpTo(f, text, n)
<1>. DEFINE P == {n \in Nat : \E f : OpenUpTo(f, text, n)}
<1>1. 0 \in P
  <2>. DEFINE f == [i \in 0 .. 0 |-> <<>>]
  <2>1. f = [i \in 0 .. 0 |-> IF i = 0 THEN <<>> ELSE Opened(f[i - 1], text[i])]
    OBVIOUS
  <2>. HIDE DEF f
  <2>2. OpenUpTo(f, text, 0)
    BY <2>1 DEF OpenUpTo
  <2>. QED
    BY <2>2
<1>2. ASSUME NEW n \in Nat, n \in P
      PROVE  n + 1 \in P
  <2>1. PICK f : OpenUpTo(f, text, n)
    BY <1>2
  <2>. DEFINE g == [i \in 0 .. n + 1 |-> IF i = 0 THEN <<>> ELSE Opened(f[i - 1], text[i])]
  <2>2. \A i \in 0 .. n : g[i] = f[i]
    <3>. TAKE i \in 0 .. n
    <3>1. f[i] = IF i = 0 THEN <<>> ELSE Opened(f[i - 1], text[i])
      BY <2>1, Zenon DEF OpenUpTo
    <3>2. i \in 0 .. n + 1
      OBVIOUS
    <3>. QED
      BY <3>1, <3>2, Zenon
  <2>3. \A i \in 0 .. n + 1 : g[i] = IF i = 0 THEN <<>> ELSE Opened(g[i - 1], text[i])
    <3>. TAKE i \in 0 .. n + 1
    <3>1. CASE i = 0
      BY <3>1
    <3>2. CASE i # 0
      <4>1. i - 1 \in 0 .. n
        BY <3>2
      <4>2. g[i - 1] = f[i - 1]
        BY <4>1, <2>2
      <4>. QED
        BY <3>2, <4>2
    <3>. QED
      BY <3>1, <3>2
  <2>4. g = [i \in 0 .. n + 1 |-> g[i]]
    OBVIOUS
  <2>. HIDE DEF g
  <2>5. OpenUpTo(g, text, n + 1)
    BY <2>3, <2>4, Zenon DEF OpenUpTo
  <2>. QED
    BY <2>5
<1>. HIDE DEF P
<1>3. \A n \in Nat : n \in P
  BY <1>1, <1>2, Induction
<1>. QED
  BY <1>3 DEF P

\* What Open returns.
LEMMA OpenIs ==
  ASSUME NEW text \in Seq(Items)
  PROVE  /\ Open(text)[0] = <<>>
         /\ \A i \in 1 .. Len(text) : Open(text)[i] = Opened(Open(text)[i - 1], text[i])
         /\ \A i \in 0 .. Len(text) : Open(text)[i] \in Seq(Names)
<1>. DEFINE n == Len(text)
            f == CHOOSE f : f = [i \in 0 .. n |-> IF i = 0 THEN <<>> ELSE Opened(f[i - 1], text[i])]
<1>0. n \in Nat
  OBVIOUS
<1>1. \E g : g = [i \in 0 .. n |-> IF i = 0 THEN <<>> ELSE Opened(g[i - 1], text[i])]
  <2>1. \E g : OpenUpTo(g, text, n)
    BY <1>0, OpenExists
  <2>. QED
    BY <2>1, Zenon DEF OpenUpTo
<1>2. f = [i \in 0 .. n |-> IF i = 0 THEN <<>> ELSE Opened(f[i - 1], text[i])]
  BY <1>1
<1>3. Open(text) = f
  BY DEF Open
<1>. HIDE DEF f, n
<1>4. \A i \in 0 .. n : f[i] = IF i = 0 THEN <<>> ELSE Opened(f[i - 1], text[i])
  BY <1>2, Zenon
<1>5. f[0] = <<>>
  <2>1. 0 \in 0 .. n
    BY <1>0
  <2>. QED
    BY <1>4, <2>1, Zenon
<1>6. \A i \in 1 .. n : f[i] = Opened(f[i - 1], text[i])
  <2>1. \A i \in 1 .. n : i \in 0 .. n /\ i # 0
    BY <1>0
  <2>. QED
    BY <1>4, <2>1
<1>7. \A i \in 0 .. n : f[i] \in Seq(Names)
  <2>. DEFINE P == {i \in Nat : i <= n => f[i] \in Seq(Names)}
  <2>1. 0 \in P
    <3>1. <<>> \in Seq(Names)
      OBVIOUS
    <3>. QED
      BY <1>5, <3>1
  <2>2. ASSUME NEW i \in Nat, i \in P
        PROVE  i + 1 \in P
    <3>. SUFFICES ASSUME i + 1 <= n
                  PROVE  f[i + 1] \in Seq(Names)
      OBVIOUS
    <3>. DEFINE j == i + 1
                o == f[i]
    <3>1. j \in 1 .. n /\ j - 1 = i /\ i <= n
      BY <1>0
    <3>. HIDE DEF j
    <3>2. f[j] = Opened(o, text[j])
      BY <1>6, <3>1
    <3>3. o \in Seq(Names)
      BY <2>2, <3>1
    <3>4. text[j] \in Items
      BY <3>1 DEF n
    <3>5. text[j].name \in Names
      BY <3>4 DEF Items
    <3>. HIDE DEF o
    <3>6. Append(o, text[j].name) \in Seq(Names)
      BY <3>3, <3>5
    <3>7. Front(o) \in Seq(Names)
      <4>1. Len(o) \in Nat
        BY <3>3
      <4>2. Front(o) = [k \in 1 .. Len(o) - 1 |-> o[k]]
        BY <3>3 DEF Front
      <4>3. CASE Len(o) = 0
        <5>1. Front(o) = <<>>
          BY <3>3, <4>2, <4>3
        <5>. QED
          BY <5>1
      <4>4. CASE Len(o) # 0
        BY <3>3, <4>1, <4>2, <4>4
      <4>. QED
        BY <4>3, <4>4
    <3>. QED
      BY <3>2, <3>3, <3>6, <3>7 DEF Opened, j
  <2>. HIDE DEF P
  <2>3. \A i \in Nat : i \in P
    BY <2>1, <2>2, Induction
  <2>. QED
    BY <1>0, <2>3 DEF P
<1>. QED
  BY <1>3, <1>5, <1>6, <1>7 DEF n

\* A program has texts.
LEMMA Texts ==
  ASSUME program \in Programs
  PROVE  /\ Main \in DOMAIN program
         /\ \A file \in DOMAIN program :
              /\ program[file] \in Seq(Items) /\ Text(file) = program[file]
              /\ \A i \in 1 .. Len(program[file]) :
                   /\ program[file][i] \in Items
                   /\ program[file][i].kind = "global" => program[file][i].name # <<>>
<1>1. \A file \in DOMAIN program : program[file] \in Seq(Items) /\ Text(file) = program[file]
  BY ProgramsAssumption DEF Text
<1>2. \A file \in DOMAIN program : \A i \in 1 .. Len(program[file]) :
        program[file][i].kind = "global" => program[file][i].name # <<>>
  BY <1>1, ProgramsAssumption
<1>. QED
  BY <1>1, <1>2, ProgramsAssumption

\* The definition that the i-th item of a file is, if it is one.
The(file, i) == Definition(file, program[file][i].kind,
                           NamespaceAfter(program[file])[i] \o program[file][i].name)
Defining == {"enumeration", "type", "function", "global"}

\* The definitions of a file.
LEMMA DefinitionsAre ==
  ASSUME program \in Programs, NEW file \in DOMAIN program
  PROVE  /\ \A i \in 1 .. Len(program[file]) : program[file][i].kind \in Defining =>
              The(file, i) \in Definitions(file)
         /\ \A d \in Definitions(file) : \E i \in 1 .. Len(program[file]) :
              program[file][i].kind \in Defining /\ d = The(file, i)
<1>1. Text(file) = program[file] /\ DOMAIN program[file] = 1 .. Len(program[file])
  BY Texts
<1>. QED
  BY <1>1 DEF Definitions, The, Defining

\* A file that is not there says nothing; a definition tells its file.
LEMMA NoDefinitions ==
  ASSUME NEW file
  PROVE  /\ file \notin DOMAIN program => Definitions(file) = {} /\ ImportsOf(file) = {}
         /\ \A d \in Definitions(file) : d.file = file /\ d.kind \in Defining
<1>1. ASSUME NEW d \in Definitions(file)
      PROVE  d.file = file /\ d.kind \in Defining
  <2>1. PICK i : /\ Text(file)[i].kind \in Defining
                 /\ d = Definition(file, Text(file)[i].kind,
                                   NamespaceAfter(Text(file))[i] \o Text(file)[i].name)
    BY DEF Definitions, Defining
  <2>. QED
    BY <2>1 DEF Definition
<1>2. ASSUME file \notin DOMAIN program
      PROVE  Definitions(file) = {} /\ ImportsOf(file) = {}
  <2>1. Text(file) = <<>> /\ DOMAIN <<>> = {}
    BY <1>2 DEF Text
  <2>. QED
    BY <2>1 DEF Definitions, ImportsOf
<1>. QED
  BY <1>1, <1>2

\* The files that a file imports.
LEMMA ImportsAre ==
  ASSUME program \in Programs, NEW file \in DOMAIN program
  PROVE  \A f : f \in ImportsOf(file) <=>
                  \E i \in 1 .. Len(program[file]) : /\ program[file][i].kind = "import"
                                                     /\ program[file][i].name[1] = f
<1>1. Text(file) = program[file] /\ DOMAIN program[file] = 1 .. Len(program[file])
  BY Texts
<1>. QED
  BY <1>1 DEF ImportsOf

\* What can be reached is imported, or can be reached from what is imported.
LEMMA ReachableIs ==
  ASSUME NEW file
  PROVE  /\ \A f \in ImportsOf(file) : {f} \cup Reachable(f) \subseteq Reachable(file)
         /\ \A g \in Reachable(file) : \E f \in ImportsOf(file) : g = f \/ g \in Reachable(f)
<1>. DEFINE files == UNION {ImportsOf(f) : f \in DOMAIN program}
            Closed(h, S) == ImportsOf(h) \cup UNION {ImportsOf(f) : f \in S} \subseteq S
<1>1. \A h : Reachable(h) = {f \in files : \A S \in SUBSET files : Closed(h, S) => f \in S}
  BY DEF Reachable
<1>2. \A h : ImportsOf(h) \subseteq files
  BY NoDefinitions
<1>3. \A h : Closed(h, Reachable(h))
  <2>1. ASSUME NEW h, NEW f \in ImportsOf(h)
        PROVE  f \in Reachable(h)
    BY <1>1, <1>2
  <2>2. ASSUME NEW h, NEW f \in Reachable(h), NEW g \in ImportsOf(f)
        PROVE  g \in Reachable(h)
    <3>1. g \in files
      BY <1>2
    <3>2. ASSUME NEW S \in SUBSET files, Closed(h, S)
          PROVE  g \in S
      <4>1. f \in S
        BY <1>1, <3>2
      <4>. QED
        BY <3>2, <4>1
    <3>. QED
      BY <1>1, <3>1, <3>2
  <2>. QED
    BY <2>1, <2>2
<1>4. ASSUME NEW f \in ImportsOf(file)
      PROVE  {f} \cup Reachable(f) \subseteq Reachable(file)
  <2>1. f \in Reachable(file)
    BY <1>3
  <2>2. Closed(f, Reachable(file)) /\ Reachable(file) \in SUBSET files
    <3>1. ImportsOf(f) \subseteq Reachable(file)
      BY <1>3, <2>1
    <3>2. Reachable(file) \subseteq files
      BY <1>1
    <3>. QED
      BY <1>3, <3>1, <3>2
  <2>3. Reachable(f) \subseteq Reachable(file)
    BY <1>1, <2>2
  <2>. QED
    BY <2>1, <2>3
<1>. DEFINE T == ImportsOf(file) \cup UNION {Reachable(f) : f \in ImportsOf(file)}
<1>5. T \in SUBSET files
  BY <1>1, <1>2
<1>6. Closed(file, T)
  <2>1. ASSUME NEW f \in T, NEW g \in ImportsOf(f)
        PROVE  g \in T
    <3>1. CASE f \in ImportsOf(file)
      BY <1>3, <2>1, <3>1
    <3>2. CASE \E h \in ImportsOf(file) : f \in Reachable(h)
      <4>1. PICK h \in ImportsOf(file) : f \in Reachable(h)
        BY <3>2
      <4>2. g \in Reachable(h)
        BY <1>3, <2>1, <4>1
      <4>. QED
        BY <4>2
    <3>. QED
      BY <2>1, <3>1, <3>2
  <2>. QED
    BY <2>1
<1>7. Reachable(file) \subseteq T
  BY <1>1, <1>5, <1>6
<1>. QED
  BY <1>4, <1>7

-----------------------------------------------------------------------------
(* The invariant. *)

Fields == {"file", "next", "pass", "namespaces", "visibility", "types", "variables",
           "constants", "imports", "paths", "bodies", "messages", "declared", "uses"}
Passes == {"top level", "bodies", "parsed", "failed"}
Bodies == [namespaces : Seq(Names), parameter : Names, uses : Seq(Names)]

\* Which definitions a table holds.
Variables == {"function", "global"}
Constants == {"enumeration"}
Sound(table, kinds, files) ==
  \A name \in DOMAIN table :
    /\ table[name].name = name /\ table[name].kind \in kinds
    /\ \E file \in files : table[name] \in Definitions(file)
Complete(variables, constants, file) ==
  \A d \in Definitions(file) :
    /\ d.kind \in Variables => d.name \in DOMAIN variables
    /\ d.kind \in Constants => d.name \in DOMAIN constants

\* A table of a file, as its importers see it.
SoundView(view, files) ==
  Sound(view.variables, Variables, files) /\ Sound(view.constants, Constants, files)
CompleteView(view, file) ==
  \A f \in {file} \cup Reachable(file) : Complete(view.variables, view.constants, f)

\* The symbol of a declaration.
Symbol(d) ==
  IF d.definition.kind = "global"
  THEN \E namespace \in Names : /\ d.definition.name = namespace \o d.symbol
                                /\ d.symbol \in Names /\ d.symbol # <<>>
  ELSE d.symbol = d.definition.name

\* Names mean what they can mean.
Right(file, use) ==
  IF use.definition = Undefined THEN Candidates(file, use) = {}
  ELSE use.definition \in Candidates(file, use)

\* A body is to be read, or has been, unless it has a name that is not known.
Read(c, uses) ==
  \/ \E j \in DOMAIN c.bodies : c.bodies[j].uses = uses
  \/ \A name \in Range(uses) : \E use \in c.uses : use.name = name
  \/ c.messages

\* An import that has failed.
Skipped(c) == c.messages /\ c.pass = "top level"

\* The i-th item has been dealt with in c.
Handled(c, i) ==
  LET it == program[c.file][i] IN
  /\ it.kind \in Variables => The(c.file, i).name \in DOMAIN c.variables
  /\ it.kind \in Constants => The(c.file, i).name \in DOMAIN c.constants
  /\ it.kind \in Defining => \E d \in c.declared : d.definition = The(c.file, i)
  /\ it.kind = "function" => Read(c, it.uses)
  /\ it.kind = "import" =>
       \/ /\ it.name[1] \in Range(c.paths)
          /\ \E e \in emitted : e.file = it.name[1]
          /\ \E j \in DOMAIN c.imports : CompleteView(c.imports[j], it.name[1])
       \/ Skipped(c)

\* What is known of c, that has dealt with n items.
Typed(c) ==
  /\ DOMAIN c = Fields /\ c.file \in DOMAIN program
  /\ c.next \in 1 .. Len(program[c.file]) + 1 /\ c.pass \in Passes
  /\ c.messages \in BOOLEAN /\ c.bodies \in Seq(Bodies)
  /\ Sequence(c.imports) /\ Sequence(c.paths)
Tables(c) ==
  /\ Sound(c.variables, Variables, {c.file}) /\ Sound(c.constants, Constants, {c.file})
  /\ \A i \in DOMAIN c.imports : SoundView(c.imports[i], Reachable(c.file))
  /\ \A d \in c.declared : d.definition.file = c.file /\ Symbol(d)
Uses(c) ==
  \A use \in c.uses : Right(c.file, use) /\ (c.messages \/ use.definition # Undefined)
Stages(c) ==
  /\ c.pass = "top level" => c.namespaces = Open(program[c.file])[c.next - 1] /\ c.uses = {}
  /\ c.pass \in {"bodies", "parsed"} => c.next = Len(program[c.file]) + 1
  /\ c.pass = "parsed" => ~c.messages /\ c.bodies = <<>>

Stated(c) == Typed(c) /\ Tables(c) /\ Uses(c) /\ Stages(c)
Done(c, n) == c.pass # "failed" => \A i \in 1 .. n : Handled(c, i)

\* A context waits for the file of its last item.
Waits(c, file) ==
  /\ c.pass = "top level" /\ c.next > 1
  /\ program[c.file][c.next - 1].kind = "import"
  /\ program[c.file][c.next - 1].name[1] = file

IInv ==
  /\ program \in Programs
  /\ Sequence(contexts) /\ contexts # <<>>
  /\ \A k \in 1 .. Len(contexts) : Stated(contexts[k])
  /\ Done(context, context.next - 1)
  /\ \A k \in 1 .. Len(contexts) - 1 :
       Done(contexts[k], contexts[k].next - 2) /\ Waits(contexts[k], contexts[k + 1].file)
  /\ \A c \in emitted : Stated(c) /\ c.pass = "parsed" /\ Done(c, c.next - 1)

\* What depends on the texts stays.
LEMMA TextsStay ==
  ASSUME program' = program
  PROVE  /\ \A f : /\ Text(f)' = Text(f) /\ Definitions(f)' = Definitions(f)
                   /\ ImportsOf(f)' = ImportsOf(f) /\ Reachable(f)' = Reachable(f)
         /\ \A f, i : The(f, i)' = The(f, i)
         /\ \A f, use : Candidates(f, use)' = Candidates(f, use)
<1>1. \A f : Text(f)' = Text(f)
  BY DEF Text
<1>2. \A f : Definitions(f)' = Definitions(f) /\ ImportsOf(f)' = ImportsOf(f)
  BY <1>1 DEF Definitions, ImportsOf
<1>3. \A f : Reachable(f)' = Reachable(f)
  BY <1>2 DEF Reachable
<1>4. \A f, i : The(f, i)' = The(f, i)
  BY DEF The
<1>5. \A f, use : Candidates(f, use)' = Candidates(f, use)
  <2>. TAKE f, use
  <2>1. \A d : d \in UNION {Definitions(g)' : g \in Reachable(f)'}
                <=> d \in UNION {Definitions(g) : g \in Reachable(f)}
    BY <1>2, <1>3
  <2>2. \A d : d \in Definitions(f)' <=> d \in Definitions(f)
    BY <1>2
  <2>3. \A d : d \in Candidates(f, use)' <=> d \in Candidates(f, use)
    BY <2>1, <2>2 DEF Candidates
  <2>. QED
    BY <2>3 DEF Candidates
<1>. QED
  BY <1>1, <1>2, <1>3, <1>4, <1>5

\* What is known of a context stays known.
LEMMA StatedStays ==
  ASSUME program' = program
  PROVE  \A c : Stated(c) => Stated(c)'
<1>. SUFFICES ASSUME NEW c, Stated(c)
              PROVE  Stated(c)'
  OBVIOUS
<1>1. Typed(c)'
  BY DEF Stated, Typed
<1>2. Tables(c)'
  BY TextsStay DEF Stated, Tables, SoundView, Sound
<1>3. Uses(c)'
  BY TextsStay DEF Stated, Uses, Right
<1>4. Stages(c)'
  BY DEF Stated, Stages
<1>. QED
  BY <1>1, <1>2, <1>3, <1>4 DEF Stated

\* More is emitted.
LEMMA DoneStays ==
  ASSUME program' = program, emitted \subseteq emitted'
  PROVE  \A c, n : Done(c, n) => Done(c, n)'
<1>1. ASSUME NEW c, NEW i, Handled(c, i)
      PROVE  Handled(c, i)'
  <2>1. \A view, f : CompleteView(view, f) => CompleteView(view, f)'
    BY TextsStay DEF CompleteView, Complete
  <2>2. \A f : (\E e \in emitted : e.file = f) => \E e \in emitted' : e.file = f
    OBVIOUS
  <2>. DEFINE it == program[c.file][i]
  <2>3. /\ it.kind \in Variables => The(c.file, i).name \in DOMAIN c.variables
        /\ it.kind \in Constants => The(c.file, i).name \in DOMAIN c.constants
        /\ it.kind \in Defining => \E d \in c.declared : d.definition = The(c.file, i)
        /\ it.kind = "function" => Read(c, it.uses)
    BY <1>1 DEF Handled
  <2>4. it.kind = "import" =>
          \/ /\ it.name[1] \in Range(c.paths)
             /\ \E e \in emitted : e.file = it.name[1]
             /\ \E j \in DOMAIN c.imports : CompleteView(c.imports[j], it.name[1])
          \/ Skipped(c)
    BY <1>1 DEF Handled
  <2>5. it.kind = "import" =>
          \/ /\ it.name[1] \in Range(c.paths)
             /\ \E e \in emitted' : e.file = it.name[1]
             /\ \E j \in DOMAIN c.imports : CompleteView(c.imports[j], it.name[1])'
          \/ Skipped(c)
    BY <2>1, <2>2, <2>4
  <2>6. it' = it /\ The(c.file, i)' = The(c.file, i)
    BY TextsStay
  <2>. HIDE DEF it
  <2>. QED
    BY <2>3, <2>5, <2>6 DEF Handled, Read, Skipped, it
<1>. QED
  BY <1>1 DEF Done

\* The innermost context changes.
LEMMA AtopKeeps ==
  ASSUME IInv, NEW c, Atop(c), program' = program, emitted \subseteq emitted',
         \A e \in emitted' \ emitted : Stated(e) /\ e.pass = "parsed" /\ Done(e, e.next - 1),
         c.file = context.file, Stated(c), Done(c, c.next - 1)
  PROVE  IInv'
<1>. DEFINE n == Len(contexts)
<1>1. Sequence(contexts) /\ contexts # <<>> /\ context = contexts[n]
  BY DEF IInv, context, Last
<1>2. /\ Sequence(contexts') /\ Len(contexts') = n /\ contexts' # <<>>
      /\ context' = c /\ contexts'[n] = c
      /\ \A k \in 1 .. n - 1 : contexts'[k] = contexts[k]
      /\ n \in Nat /\ n >= 1
  BY <1>1, Replaced DEF Atop, context
<1>. HIDE DEF n
<1>3. \A k \in 1 .. n : Stated(contexts[k])'
  <2>1. \A k \in 1 .. n - 1 : Stated(contexts[k])
    BY <1>2 DEF IInv, n
  <2>2. \A k \in 1 .. n : k = n \/ k \in 1 .. n - 1
    BY <1>2
  <2>. QED
    BY <1>2, <2>1, <2>2, StatedStays
<1>4. Done(context, context.next - 1)'
  BY <1>2, DoneStays
<1>5. \A k \in 1 .. n - 1 :
        Done(contexts[k], contexts[k].next - 2)' /\ Waits(contexts[k], contexts[k + 1].file)'
  <2>1. ASSUME NEW k \in 1 .. n - 1
        PROVE  /\ contexts'[k] = contexts[k] /\ contexts'[k + 1].file = contexts[k + 1].file
               /\ Done(contexts[k], contexts[k].next - 2)
               /\ Waits(contexts[k], contexts[k + 1].file)
    <3>1. k + 1 \in 1 .. n /\ (k + 1 = n \/ k + 1 \in 1 .. n - 1)
      BY <1>2
    <3>2. contexts'[k + 1].file = contexts[k + 1].file
      BY <1>1, <1>2, <3>1
    <3>. QED
      BY <1>2, <3>2 DEF IInv, n
  <2>2. \A d, f : Waits(d, f) => Waits(d, f)'
    BY DEF Waits
  <2>. QED
    BY <2>1, <2>2, DoneStays
<1>6. \A e \in emitted' : Stated(e)' /\ e.pass = "parsed" /\ Done(e, e.next - 1)'
  BY StatedStays, DoneStays DEF IInv
<1>7. program' \in Programs
  BY DEF IInv
<1>. QED
  BY <1>2, <1>3, <1>4, <1>5, <1>6, <1>7 DEF IInv

-----------------------------------------------------------------------------
(* The top level. *)

\* e knows what c does, and has dealt with what c has.
Keeps(c, e) ==
  /\ e.file = c.file /\ (Skipped(c) => Skipped(e))
  /\ c.declared \subseteq e.declared
  /\ DOMAIN c.variables \subseteq DOMAIN e.variables
  /\ DOMAIN c.constants \subseteq DOMAIN e.constants
  /\ Range(c.paths) \subseteq Range(e.paths)
  /\ \A j \in DOMAIN c.imports : \E k \in DOMAIN e.imports : e.imports[k] = c.imports[j]
  /\ \A uses : Read(c, uses) => Read(e, uses)

\* What has been dealt with stays so.
LEMMA HandledStays ==
  ASSUME NEW c, NEW e, NEW i, Handled(c, i), Keeps(c, e)
  PROVE  Handled(e, i)
<1>. DEFINE it == program[c.file][i]
            d == The(c.file, i)
<1>1. /\ it.kind \in Variables => d.name \in DOMAIN c.variables
      /\ it.kind \in Constants => d.name \in DOMAIN c.constants
      /\ it.kind \in Defining => \E e1 \in c.declared : e1.definition = d
      /\ it.kind = "function" => Read(c, it.uses)
      /\ it.kind = "import" =>
           \/ /\ it.name[1] \in Range(c.paths)
              /\ \E e1 \in emitted : e1.file = it.name[1]
              /\ \E j \in DOMAIN c.imports : CompleteView(c.imports[j], it.name[1])
           \/ Skipped(c)
  BY DEF Handled
<1>2. it = program[e.file][i] /\ d = The(e.file, i)
  BY DEF Keeps
<1>. HIDE DEF it, d
<1>3. /\ it.kind \in Variables => d.name \in DOMAIN e.variables
      /\ it.kind \in Constants => d.name \in DOMAIN e.constants
      /\ it.kind \in Defining => \E e1 \in e.declared : e1.definition = d
      /\ it.kind = "function" => Read(e, it.uses)
  BY <1>1 DEF Keeps
<1>4. it.kind = "import" =>
           \/ /\ it.name[1] \in Range(e.paths)
              /\ \E e1 \in emitted : e1.file = it.name[1]
              /\ \E j \in DOMAIN e.imports : CompleteView(e.imports[j], it.name[1])
           \/ Skipped(e)
  BY <1>1 DEF Keeps
<1>. QED
  BY <1>2, <1>3, <1>4 DEF Handled

\* The item that is read.
LEMMA ItemIs ==
  ASSUME IInv, NEW kind, Reading(kind)
  PROVE  /\ context.file \in DOMAIN program /\ context.next \in 1 .. Len(program[context.file])
         /\ Len(program[context.file]) \in Nat
         /\ context.pass = "top level" /\ item.kind = kind /\ item \in Items
         /\ item.kind = "global" => item.name # <<>>
         /\ item = program[context.file][context.next]
         /\ context.namespaces \in Seq(Names)
         /\ Open(program[context.file])[context.next] = Opened(context.namespaces, item)
         /\ Stated(context) /\ DOMAIN context = Fields
<1>1. Stated(context) /\ program \in Programs
  <2>1. Len(contexts) \in 1 .. Len(contexts)
    BY Taken DEF IInv
  <2>. QED
    BY <2>1 DEF IInv, context, Last
<1>2. context.file \in DOMAIN program /\ DOMAIN context = Fields
  BY <1>1 DEF Stated, Typed
<1>3. /\ program[context.file] \in Seq(Items)
      /\ \A i \in 1 .. Len(program[context.file]) :
           /\ program[context.file][i] \in Items
           /\ program[context.file][i].kind = "global" => program[context.file][i].name # <<>>
  BY <1>1, <1>2, Texts
<1>4. context.next \in 1 .. Len(program[context.file]) /\ Len(program[context.file]) \in Nat
  <2>1. context.next \in DOMAIN program[context.file]
    BY DEF Reading
  <2>. QED
    BY <1>3, <2>1
<1>5. context.pass = "top level" /\ item.kind = kind
  BY DEF Reading
<1>6. context.namespaces = Open(program[context.file])[context.next - 1]
  BY <1>1, <1>5 DEF Stated, Stages
<1>7. context.namespaces \in Seq(Names)
  BY <1>3, <1>4, <1>6, OpenIs
<1>8. Open(program[context.file])[context.next] = Opened(context.namespaces, item)
  BY <1>3, <1>4, <1>6, OpenIs DEF item
<1>. QED
  BY <1>1, <1>2, <1>3, <1>4, <1>5, <1>7, <1>8 DEF item

\* c is the innermost context behind the item that is read, but for what has been
\* defined by it.
Behind(c) ==
  /\ DOMAIN c = Fields /\ c.file = context.file /\ c.next = context.next + 1
  /\ c.pass = "top level" /\ c.uses = context.uses
  /\ c.imports = context.imports /\ c.paths = context.paths
  /\ c.namespaces = Opened(context.namespaces, item)
Tells(c) == c.messages \in BOOLEAN /\ (context.messages => c.messages)
Defines(c) ==
  /\ c.bodies \in Seq(Bodies)
  /\ \A j \in DOMAIN context.bodies :
       \E k \in DOMAIN c.bodies : c.bodies[k].uses = context.bodies[j].uses
  /\ Sound(c.variables, Variables, {c.file}) /\ Sound(c.constants, Constants, {c.file})
  /\ DOMAIN context.variables \subseteq DOMAIN c.variables
  /\ DOMAIN context.constants \subseteq DOMAIN c.constants
  /\ context.declared \subseteq c.declared
  /\ \A d \in c.declared : d.definition.file = c.file /\ Symbol(d)

\* An item is dealt with.
LEMMA ItemKeeps ==
  ASSUME IInv, NEW kind, Reading(kind), NEW c, Atop(c), Going,
         Behind(c), Tells(c), Defines(c), Handled(c, context.next)
  PROVE  IInv'
<1>. DEFINE n == context.next
            text == program[context.file]
<1>1. /\ n \in 1 .. Len(text) /\ Len(text) \in Nat /\ context.pass = "top level"
      /\ Open(text)[n] = Opened(context.namespaces, item)
      /\ Stated(context) /\ context.file \in DOMAIN program
  BY ItemIs
<1>2. c.next = n + 1 /\ c.file = context.file
  BY DEF Behind
<1>. HIDE DEF n, text
<1>3. c.next \in 1 .. Len(text) + 1 /\ c.next - 1 = n /\ n \in Nat
  <2>. DEFINE l == Len(text)
              next == c.next
  <2>1. l \in Nat /\ n \in 1 .. l /\ next = n + 1
    BY <1>1, <1>2
  <2>. HIDE DEF l, next
  <2>2. next \in 1 .. l + 1 /\ next - 1 = n /\ n \in Nat
    BY <2>1
  <2>. QED
    BY <2>2 DEF l, next
<1>4. Typed(c)
  <2>1. Sequence(c.imports) /\ Sequence(c.paths) /\ DOMAIN c = Fields /\ c.pass \in Passes
    BY <1>1 DEF Stated, Typed, Behind, Passes
  <2>. QED
    BY <1>1, <1>2, <1>3, <2>1 DEF Typed, Tells, Defines, text
<1>5. Tables(c)
  BY <1>1 DEF Stated, Tables, Behind, Defines
<1>6. c.uses = {}
  BY <1>1 DEF Stated, Stages, Behind
<1>7. Uses(c)
  BY <1>6 DEF Uses
<1>8. Stages(c)
  BY <1>1, <1>3, <1>6 DEF Stages, text, Behind
<1>9. Done(c, c.next - 1)
  <2>1. Done(context, n - 1)
    BY DEF IInv, n
  <2>2. \A i \in 1 .. n - 1 : Handled(context, i)
    BY <1>1, <2>1 DEF Done
  <2>3. /\ c.file = context.file /\ c.pass = context.pass /\ c.uses = context.uses
        /\ c.imports = context.imports /\ c.paths = context.paths
    BY <1>1, <1>2 DEF Behind
  <2>4. Keeps(context, c)
    <3>1. Skipped(context) => Skipped(c)
      BY <2>3 DEF Skipped, Tells
    <3>2. \A uses : Read(context, uses) => Read(c, uses)
      BY <2>3 DEF Read, Tells, Defines
    <3>3. /\ context.declared \subseteq c.declared
          /\ DOMAIN context.variables \subseteq DOMAIN c.variables
          /\ DOMAIN context.constants \subseteq DOMAIN c.constants
      BY DEF Defines
    <3>. QED
      BY <2>3, <3>1, <3>2, <3>3 DEF Keeps
  <2>5. \A i \in 1 .. n : i = n \/ i \in 1 .. n - 1
    <3>1. n \in Nat
      BY <1>3
    <3>. QED
      BY <3>1
  <2>6. Handled(c, n)
    BY DEF n
  <2>. QED
    BY <1>3, <2>2, <2>4, <2>5, <2>6, HandledStays DEF Done
<1>10. program' = program /\ emitted' = emitted
  BY DEF Going
<1>. QED
  BY <1>2, <1>4, <1>5, <1>7, <1>8, <1>9, <1>10, AtopKeeps DEF Stated

\* The parse of a file stops.
LEMMA StoppedKeeps ==
  ASSUME IInv, NEW kind, Reading(kind), Stopped, Going
  PROVE  IInv'
<1>. DEFINE c == [context EXCEPT !.pass = "failed", !.messages = TRUE]
<1>1. DOMAIN context = Fields /\ Stated(context)
  BY ItemIs
<1>2. /\ DOMAIN c = Fields /\ c.file = context.file /\ c.next = context.next
      /\ c.pass = "failed" /\ c.messages /\ c.messages \in BOOLEAN /\ c.uses = context.uses
      /\ c.imports = context.imports /\ c.paths = context.paths /\ c.bodies = context.bodies
      /\ c.variables = context.variables /\ c.constants = context.constants
      /\ c.declared = context.declared
  BY <1>1 DEF Fields
<1>3. Atop(c)
  BY DEF Stopped
<1>. HIDE DEF c
<1>4. Typed(c)
  BY <1>1, <1>2 DEF Stated, Typed, Passes
<1>5. Tables(c)
  BY <1>1, <1>2 DEF Stated, Tables
<1>6. Uses(c)
  BY <1>1, <1>2 DEF Stated, Uses
<1>7. Stages(c) /\ Done(c, c.next - 1)
  BY <1>2 DEF Stages, Done
<1>8. program' = program /\ emitted' = emitted
  BY SMTT(30) DEF Going
<1>. QED
  BY <1>2, <1>3, <1>4, <1>5, <1>6, <1>7, <1>8, AtopKeeps DEF Stated

\* The definition that an item is.
LEMMA DefinedIs ==
  ASSUME IInv, NEW kind, Reading(kind), kind \in Defining
  PROVE  /\ Defined = The(context.file, context.next) /\ Defined.name = fullName
         /\ Defined.kind = kind /\ Defined.file = context.file
         /\ Defined \in Definitions(context.file)
         /\ fullName = fullNamespace(context) \o item.name
         /\ fullNamespace(context) \in Names
         /\ Opened(context.namespaces, item) = context.namespaces
<1>. DEFINE n == context.next
            text == program[context.file]
<1>1. /\ n \in 1 .. Len(text) /\ item.kind = kind /\ context.file \in DOMAIN program
      /\ item = text[n] /\ context.namespaces \in Seq(Names)
      /\ Open(text)[n] = Opened(context.namespaces, item)
  BY ItemIs
<1>2. Opened(context.namespaces, item) = context.namespaces
  BY <1>1 DEF Opened, Defining
<1>3. fullNamespace(context) = NamespaceAfter(text)[n]
  <2>1. n \in 0 .. Len(text)
    BY <1>1
  <2>. QED
    BY <1>1, <1>2, <2>1 DEF NamespaceAfter, fullNamespace
<1>4. Defined = The(context.file, n)
  BY <1>1, <1>3 DEF Defined, The, fullName
<1>5. The(context.file, n) \in Definitions(context.file)
  <2>1. program \in Programs
    BY DEF IInv
  <2>. QED
    BY <1>1, <2>1, DefinitionsAre
<1>6. fullNamespace(context) \in Names
  BY <1>1, FlattenSeqType DEF fullNamespace, Names
<1>. QED
  BY <1>1, <1>2, <1>4, <1>5, <1>6 DEF Defined, Definition, fullName

\* A name is defined.
LEMMA SoundKnown ==
  ASSUME NEW table, NEW kinds, NEW file, Sound(table, kinds, {file}),
         NEW d \in Definitions(file), d.kind \in kinds
  PROVE  /\ Sound(Known(table, d.name, d), kinds, {file})
         /\ DOMAIN Known(table, d.name, d) = DOMAIN table \cup {d.name}
<1>1. \A name \in DOMAIN table \cup {d.name} :
        Known(table, d.name, d)[name] = IF name = d.name THEN d ELSE table[name]
  BY DEF Known
<1>2. DOMAIN Known(table, d.name, d) = DOMAIN table \cup {d.name}
  BY DEF Known
<1>. QED
  BY <1>1, <1>2 DEF Sound

\* The item that is read has been dealt with in c.
LEMMA ItemHandled ==
  ASSUME IInv, NEW kind, Reading(kind), NEW c, c.file = context.file,
         kind \in Defining => \E d \in c.declared : d.definition = Defined,
         kind \in Variables => fullName \in DOMAIN c.variables,
         kind \in Constants => fullName \in DOMAIN c.constants,
         kind = "function" => \E j \in DOMAIN c.bodies : c.bodies[j].uses = item.uses,
         kind = "import" => Skipped(c)
  PROVE  Handled(c, context.next)
<1>. DEFINE it == program[c.file][context.next]
            d == The(c.file, context.next)
<1>1. it = item /\ item.kind = kind
  BY ItemIs
<1>2. kind \in Defining => d = Defined /\ d.name = fullName
  BY DefinedIs
<1>. HIDE DEF it, d
<1>3. /\ it.kind \in Variables => d.name \in DOMAIN c.variables
      /\ it.kind \in Constants => d.name \in DOMAIN c.constants
      /\ it.kind \in Defining => \E e \in c.declared : e.definition = d
  <2>1. Variables \subseteq Defining /\ Constants \subseteq Defining
    BY DEF Variables, Constants, Defining
  <2>. QED
    BY <1>1, <1>2, <2>1
<1>4. it.kind = "function" => Read(c, it.uses)
  BY <1>1 DEF Read
<1>5. it.kind = "import" => Skipped(c)
  BY <1>1
<1>. QED
  BY <1>3, <1>4, <1>5 DEF Handled, it, d

\* Nothing is defined.
LEMMA SameDefines ==
  ASSUME Stated(context), NEW c, c.file = context.file, c.bodies = context.bodies,
         c.variables = context.variables, c.constants = context.constants,
         c.declared = context.declared
  PROVE  Defines(c)
BY DEF Stated, Typed, Tables, Defines

\* A definition is printed for C with its full name.
LEMMA DeclarationIs ==
  ASSUME NEW symbol, NEW definition
  PROVE  /\ Declaration(symbol, definition).definition = definition
         /\ definition.kind # "global" /\ symbol = definition.name =>
              Symbol(Declaration(symbol, definition))
BY DEF Declaration, Symbol

\* What stays when nothing is read.
LEMMA SameKeeps ==
  ASSUME IInv, UNCHANGED <<program, contexts, emitted>>
  PROVE  IInv'
<1>1. \A c : Stated(c) => Stated(c)'
  BY StatedStays
<1>2. \A c, n : Done(c, n) => Done(c, n)'
  BY DoneStays
<1>3. \A d, f : Waits(d, f) => Waits(d, f)'
  BY DEF Waits
<1>4. context' = context
  BY DEF context
<1>. QED
  BY <1>1, <1>2, <1>3, <1>4 DEF IInv

\* An enumeration keeps the invariant.
LEMMA CompositeKeeps ==
  ASSUME IInv, Composite
  PROVE  IInv'
<1>. DEFINE type == Front(fullName)
            definition == Definition(context.file, "type", type)
            c == [[context EXCEPT
                    !.types = Known(@, type, definition),
                    !.constants = Known(@, fullName, Defined),
                    !.declared = @ \cup {Declaration(type, definition),
                                         Declaration(fullName, Defined)}] EXCEPT !.next = @ + 1]
<1>1. Reading("enumeration")
  BY DEF Composite
<1>2. CASE Refuse
  BY <1>2, SameKeeps DEF Refuse
<1>3. CASE Atop(c) /\ Going
  <2>1. DOMAIN context = Fields /\ Stated(context)
    BY <1>1, ItemIs
  <2>2. /\ DOMAIN c = Fields /\ c.file = context.file /\ c.next = context.next + 1
        /\ c.pass = context.pass /\ c.uses = context.uses /\ c.imports = context.imports
        /\ c.paths = context.paths /\ c.namespaces = context.namespaces
        /\ c.messages = context.messages /\ c.bodies = context.bodies
        /\ c.variables = context.variables
        /\ c.constants = Known(context.constants, fullName, Defined)
        /\ c.declared = context.declared \cup {Declaration(type, definition),
                                               Declaration(fullName, Defined)}
    BY <2>1 DEF Fields
  <2>. HIDE DEF c
  <2>3. /\ Defined.name = fullName /\ Defined.kind = "enumeration"
        /\ Defined.file = context.file /\ Defined \in Definitions(context.file)
        /\ Opened(context.namespaces, item) = context.namespaces /\ context.pass = "top level"
    BY <1>1, DefinedIs, ItemIs DEF Defining
  <2>4. Behind(c)
    BY <2>2, <2>3 DEF Behind
  <2>5. Tells(c)
    BY <2>1, <2>2 DEF Tells, Stated, Typed
  <2>6. Defines(c)
    <3>1. /\ Sound(context.variables, Variables, {c.file})
          /\ Sound(context.constants, Constants, {c.file})
          /\ \A d \in context.declared : d.definition.file = c.file /\ Symbol(d)
          /\ context.bodies \in Seq(Bodies)
      BY <2>1, <2>2 DEF Stated, Typed, Tables
    <3>2. /\ Sound(c.constants, Constants, {c.file})
          /\ DOMAIN context.constants \subseteq DOMAIN c.constants
      <4>1. Defined \in Definitions(c.file) /\ Defined.kind \in Constants
        BY <2>2, <2>3 DEF Constants
      <4>2. /\ Sound(Known(context.constants, Defined.name, Defined), Constants, {c.file})
            /\ DOMAIN Known(context.constants, Defined.name, Defined)
                 = DOMAIN context.constants \cup {Defined.name}
        BY <3>1, <4>1, SoundKnown
      <4>. QED
        BY <2>2, <2>3, <4>2
    <3>3. /\ definition.file = c.file /\ definition.kind = "type" /\ definition.name = type
          /\ Defined.file = c.file
      BY <2>2, <2>3 DEF Definition
    <3>. HIDE DEF definition, type
    <3>4. \A d \in c.declared : d.definition.file = c.file /\ Symbol(d)
      <4>1. /\ Declaration(type, definition).definition.file = c.file
            /\ Symbol(Declaration(type, definition))
        BY <3>3, DeclarationIs
      <4>2. /\ Declaration(fullName, Defined).definition.file = c.file
            /\ Symbol(Declaration(fullName, Defined))
        BY <2>3, <3>3, DeclarationIs, ZenonT(60)
      <4>. QED
        BY <2>2, <3>1, <4>1, <4>2
    <3>. QED
      BY <2>2, <3>1, <3>2, <3>4 DEF Defines
  <2>7. Handled(c, context.next)
    <3>1. fullName \in DOMAIN c.constants
      BY <2>2 DEF Known
    <3>2. \E d \in c.declared : d.definition = Defined
      BY <2>2, DeclarationIs
    <3>. QED
      <4>1. "enumeration" \notin Variables
        BY DEF Variables
      <4>. QED
        BY <1>1, <2>2, <3>1, <3>2, <4>1, ItemHandled
  <2>. QED
    BY <1>1, <1>3, <2>4, <2>5, <2>6, <2>7, ItemKeeps
<1>. QED
  BY <1>2, <1>3 DEF Composite, Parsed

\* A structure keeps the invariant.
LEMMA StructureKeeps ==
  ASSUME IInv, Structure
  PROVE  IInv'
<1>. DEFINE sources == {"internal"} \cup ({context.visibility} \cap {"external"})
            declarations == [symbol : {fullName}, source : sources, definition : {Defined}]
            c == [[context EXCEPT
                    !.types = Known(@, fullName, Defined),
                    !.declared = @ \cup declarations] EXCEPT !.next = @ + 1]
<1>1. Reading("type") /\ Atop(c) /\ Going
  BY DEF Structure, Parsed
<1>2. DOMAIN context = Fields /\ Stated(context)
  BY <1>1, ItemIs
<1>3. /\ DOMAIN c = Fields /\ c.file = context.file /\ c.next = context.next + 1
      /\ c.pass = context.pass /\ c.uses = context.uses /\ c.imports = context.imports
      /\ c.paths = context.paths /\ c.namespaces = context.namespaces
      /\ c.messages = context.messages /\ c.bodies = context.bodies
      /\ c.variables = context.variables /\ c.constants = context.constants
      /\ c.declared = context.declared \cup declarations
  BY <1>2 DEF Fields
<1>. HIDE DEF c
<1>4. /\ Defined.name = fullName /\ Defined.kind = "type" /\ Defined.file = context.file
      /\ Opened(context.namespaces, item) = context.namespaces /\ context.pass = "top level"
  BY <1>1, DefinedIs, ItemIs DEF Defining
<1>5. Behind(c)
  BY <1>3, <1>4 DEF Behind
<1>6. Tells(c)
  BY <1>2, <1>3 DEF Tells, Stated, Typed
<1>7. \A d \in declarations : d.symbol = fullName /\ d.definition = Defined
  OBVIOUS
<1>8. \E d \in declarations : d.definition = Defined
  <2>1. [symbol |-> fullName, source |-> "internal", definition |-> Defined] \in declarations
    OBVIOUS
  <2>. QED
    BY <2>1
<1>. HIDE DEF declarations
<1>9. Defines(c)
  <2>1. /\ Sound(context.variables, Variables, {c.file})
        /\ Sound(context.constants, Constants, {c.file})
        /\ \A d \in context.declared : d.definition.file = c.file /\ Symbol(d)
        /\ context.bodies \in Seq(Bodies)
    BY <1>2, <1>3 DEF Stated, Typed, Tables
  <2>2. \A d \in c.declared : d.definition.file = c.file /\ Symbol(d)
    BY <1>3, <1>4, <1>7, <2>1 DEF Symbol
  <2>. QED
    BY <1>3, <2>1, <2>2 DEF Defines
<1>10. Handled(c, context.next)
  <2>1. \E d \in c.declared : d.definition = Defined
    BY <1>3, <1>8
  <2>. QED
    <3>1. "type" \notin Variables /\ "type" \notin Constants
      BY DEF Variables, Constants
    <3>. QED
      BY <1>1, <1>3, <2>1, <3>1, ItemHandled
<1>. QED
  BY <1>1, <1>5, <1>6, <1>9, <1>10, ItemKeeps

\* A function or a global is defined.
LEMMA VariableDefined ==
  ASSUME IInv, NEW kind, Reading(kind), kind \in Variables
  PROVE  LET table == Known(context.variables, fullName, Defined) IN
         /\ Sound(table, Variables, {context.file})
         /\ DOMAIN table = DOMAIN context.variables \cup {fullName}
<1>1. /\ Defined.name = fullName /\ Defined.kind = kind
      /\ Defined \in Definitions(context.file)
  BY DefinedIs DEF Variables, Defining
<1>2. Sound(context.variables, Variables, {context.file})
  BY ItemIs DEF Stated, Tables
<1>3. /\ Sound(Known(context.variables, Defined.name, Defined), Variables, {context.file})
      /\ DOMAIN Known(context.variables, Defined.name, Defined)
           = DOMAIN context.variables \cup {Defined.name}
  BY <1>1, <1>2, SoundKnown
<1>. QED
  BY <1>1, <1>3

\* A function keeps the invariant: its body is to be read.
LEMMA FunctionKeeps ==
  ASSUME IInv, Function
  PROVE  IInv'
<1>. DEFINE body == [namespaces |-> context.namespaces, parameter |-> item.parameter,
                     uses |-> item.uses]
            c == [[context EXCEPT
                    !.variables = Known(@, fullName, Defined),
                    !.bodies = Append(@, body),
                    !.declared = @ \cup {Declaration(fullName, Defined)}] EXCEPT !.next = @ + 1]
<1>1. Reading("function")
  BY DEF Function
<1>2. CASE Refuse
  BY <1>2, SameKeeps DEF Refuse
<1>3. CASE Stopped /\ Going
  BY <1>1, <1>3, StoppedKeeps
<1>4. CASE Atop(c) /\ Going
  <2>1. DOMAIN context = Fields /\ Stated(context)
    BY <1>1, ItemIs
  <2>2. /\ DOMAIN c = Fields /\ c.file = context.file /\ c.next = context.next + 1
        /\ c.pass = context.pass /\ c.uses = context.uses /\ c.imports = context.imports
        /\ c.paths = context.paths /\ c.namespaces = context.namespaces
        /\ c.messages = context.messages /\ c.bodies = Append(context.bodies, body)
        /\ c.variables = Known(context.variables, fullName, Defined)
        /\ c.constants = context.constants
        /\ c.declared = context.declared \cup {Declaration(fullName, Defined)}
    BY <2>1 DEF Fields
  <2>. HIDE DEF c
  <2>3. /\ Defined.name = fullName /\ Defined.kind = "function" /\ Defined.file = context.file
        /\ Opened(context.namespaces, item) = context.namespaces /\ context.pass = "top level"
    BY <1>1, DefinedIs, ItemIs DEF Defining
  <2>4. Behind(c)
    BY <2>2, <2>3 DEF Behind
  <2>5. Tells(c)
    BY <2>1, <2>2 DEF Tells, Stated, Typed
  <2>6. body \in Bodies /\ body.uses = item.uses
    <3>1. item \in Items /\ context.namespaces \in Seq(Names)
      BY <1>1, ItemIs
    <3>. QED
      BY <3>1 DEF Items, Bodies
  <2>. HIDE DEF body
  <2>7. /\ c.bodies \in Seq(Bodies)
        /\ \A j \in DOMAIN context.bodies : j \in DOMAIN c.bodies /\ c.bodies[j] = context.bodies[j]
        /\ \E j \in DOMAIN c.bodies : c.bodies[j].uses = item.uses
    <3>. DEFINE l == Len(context.bodies)
    <3>1. context.bodies \in Seq(Bodies)
      BY <2>1 DEF Stated, Typed
    <3>2. /\ \A j \in 1 .. l : c.bodies[j] = context.bodies[j]
          /\ c.bodies[l + 1] = body /\ l \in Nat
          /\ DOMAIN context.bodies = 1 .. l /\ DOMAIN c.bodies = 1 .. l + 1
      BY <2>2, <3>1, Appended DEF Sequence
    <3>3. c.bodies \in Seq(Bodies)
      BY <2>2, <2>6, <3>1
    <3>. HIDE DEF l
    <3>4. l + 1 \in DOMAIN c.bodies /\ \A j \in 1 .. l : j \in 1 .. l + 1
      BY <3>2
    <3>. QED
      BY <2>6, <3>2, <3>3, <3>4
  <2>8. /\ Sound(c.variables, Variables, {c.file})
        /\ DOMAIN c.variables = DOMAIN context.variables \cup {fullName}
    <3>1. "function" \in Variables
      BY DEF Variables
    <3>. QED
      BY <1>1, <2>2, <3>1, VariableDefined
  <2>9. Defines(c)
    <3>1. /\ Sound(context.constants, Constants, {c.file})
          /\ \A d \in context.declared : d.definition.file = c.file /\ Symbol(d)
      BY <2>1, <2>2 DEF Stated, Typed, Tables
    <3>2. /\ Declaration(fullName, Defined).definition.file = c.file
          /\ Symbol(Declaration(fullName, Defined))
      <4>1. Defined.kind # "global" /\ Defined.file = c.file /\ Defined.name = fullName
        BY <2>2, <2>3
      <4>. QED
        BY <4>1, DeclarationIs
    <3>3. \A d \in c.declared : d.definition.file = c.file /\ Symbol(d)
      BY <2>2, <3>1, <3>2
    <3>4. \A j \in DOMAIN context.bodies :
            \E k \in DOMAIN c.bodies : c.bodies[k].uses = context.bodies[j].uses
      BY <2>7
    <3>. QED
      BY <2>2, <2>7, <2>8, <3>1, <3>3, <3>4 DEF Defines
  <2>10. Handled(c, context.next)
    <3>1. fullName \in DOMAIN c.variables
      BY <2>8
    <3>2. \E d \in c.declared : d.definition = Defined
      BY <2>2, DeclarationIs
    <3>3. "function" \notin Constants
      BY DEF Constants
    <3>. QED
      BY <1>1, <2>2, <2>7, <3>1, <3>2, <3>3, ItemHandled
  <2>. QED
    BY <1>1, <1>4, <2>4, <2>5, <2>9, <2>10, ItemKeeps
<1>. QED
  BY <1>2, <1>3, <1>4 DEF Function, Parsed

\* A global keeps the invariant: its symbol is an end of its name.
LEMMA GlobalKeeps ==
  ASSUME IInv, Global
  PROVE  IInv'
<1>. DEFINE c == [[context EXCEPT
                    !.variables = Known(@, fullName, Defined),
                    !.declared = @ \cup {Declaration(item.name, Defined)}] EXCEPT !.next = @ + 1]
<1>1. Reading("global") /\ Going
  BY DEF Global
<1>2. CASE Stopped
  BY <1>1, <1>2, StoppedKeeps
<1>3. CASE Atop(c)
  <2>1. DOMAIN context = Fields /\ Stated(context)
    BY <1>1, ItemIs
  <2>2. /\ DOMAIN c = Fields /\ c.file = context.file /\ c.next = context.next + 1
        /\ c.pass = context.pass /\ c.uses = context.uses /\ c.imports = context.imports
        /\ c.paths = context.paths /\ c.namespaces = context.namespaces
        /\ c.messages = context.messages /\ c.bodies = context.bodies
        /\ c.variables = Known(context.variables, fullName, Defined)
        /\ c.constants = context.constants
        /\ c.declared = context.declared \cup {Declaration(item.name, Defined)}
    BY <2>1 DEF Fields
  <2>. HIDE DEF c
  <2>3. /\ Defined.name = fullName /\ Defined.kind = "global" /\ Defined.file = context.file
        /\ Opened(context.namespaces, item) = context.namespaces /\ context.pass = "top level"
        /\ fullName = fullNamespace(context) \o item.name /\ fullNamespace(context) \in Names
        /\ item \in Items /\ item.name # <<>>
    BY <1>1, DefinedIs, ItemIs DEF Defining
  <2>4. Behind(c)
    BY <2>2, <2>3 DEF Behind
  <2>5. Tells(c)
    BY <2>1, <2>2 DEF Tells, Stated, Typed
  <2>6. /\ Sound(c.variables, Variables, {c.file})
        /\ DOMAIN c.variables = DOMAIN context.variables \cup {fullName}
    <3>1. "global" \in Variables
      BY DEF Variables
    <3>. QED
      BY <1>1, <2>2, <3>1, VariableDefined
  <2>7. Defines(c)
    <3>1. /\ Sound(context.constants, Constants, {c.file})
          /\ \A d \in context.declared : d.definition.file = c.file /\ Symbol(d)
          /\ context.bodies \in Seq(Bodies)
      BY <2>1, <2>2 DEF Stated, Typed, Tables
    <3>2. /\ Declaration(item.name, Defined).definition.file = c.file
          /\ Symbol(Declaration(item.name, Defined))
      <4>1. item.name \in Names
        BY <2>3 DEF Items
      <4>. QED
        BY <2>2, <2>3, <4>1 DEF Declaration, Symbol
    <3>3. \A d \in c.declared : d.definition.file = c.file /\ Symbol(d)
      BY <2>2, <3>1, <3>2
    <3>4. \A j \in DOMAIN context.bodies :
            \E k \in DOMAIN c.bodies : c.bodies[k].uses = context.bodies[j].uses
      BY <2>2
    <3>. QED
      BY <2>2, <2>6, <3>1, <3>3, <3>4 DEF Defines
  <2>8. Handled(c, context.next)
    <3>1. fullName \in DOMAIN c.variables
      BY <2>6
    <3>2. \E d \in c.declared : d.definition = Defined
      BY <2>2, DeclarationIs
    <3>3. "global" \notin Constants
      BY DEF Constants
    <3>. QED
      BY <1>1, <2>2, <3>1, <3>2, <3>3, ItemHandled
  <2>. QED
    BY <1>1, <1>3, <2>4, <2>5, <2>7, <2>8, ItemKeeps
<1>. QED
  BY <1>2, <1>3 DEF Global, Parsed

\* An item that defines nothing: a namespace, the end of one, a visibility.
LEMMA OtherKeeps ==
  ASSUME IInv, NEW kind \in {"namespace", "end", "visibility"}, Reading(kind), Going,
         NEW c, Atop(c), Behind(c), Tells(c), c.bodies = context.bodies,
         c.variables = context.variables, c.constants = context.constants,
         c.declared = context.declared
  PROVE  IInv'
<1>1. Stated(context) /\ c.file = context.file
  BY ItemIs DEF Behind
<1>2. Defines(c)
  BY <1>1, SameDefines
<1>3. /\ kind \notin Defining /\ kind \notin Variables /\ kind \notin Constants
      /\ kind # "function" /\ kind # "import"
  BY DEF Defining, Variables, Constants
<1>4. Handled(c, context.next)
  BY <1>1, <1>3, ItemHandled
<1>. QED
  BY <1>2, <1>4, ItemKeeps

\* A namespace keeps the invariant.
LEMMA NamespaceKeeps ==
  ASSUME IInv, Namespace
  PROVE  IInv'
<1>. DEFINE c == [[context EXCEPT !.namespaces = Append(@, item.name)] EXCEPT !.next = @ + 1]
<1>1. Reading("namespace") /\ Atop(c) /\ Going
  BY DEF Namespace, Parsed
<1>2. /\ DOMAIN context = Fields /\ Stated(context) /\ item.kind = "namespace"
      /\ context.pass = "top level"
  BY <1>1, ItemIs
<1>3. /\ DOMAIN c = Fields /\ c.file = context.file /\ c.next = context.next + 1
      /\ c.pass = context.pass /\ c.uses = context.uses /\ c.imports = context.imports
      /\ c.paths = context.paths /\ c.namespaces = Append(context.namespaces, item.name)
      /\ c.messages = context.messages /\ c.bodies = context.bodies
      /\ c.variables = context.variables /\ c.constants = context.constants
      /\ c.declared = context.declared
  BY <1>2 DEF Fields
<1>. HIDE DEF c
<1>4. Behind(c)
  BY <1>2, <1>3 DEF Behind, Opened
<1>5. Tells(c)
  BY <1>2, <1>3 DEF Tells, Stated, Typed
<1>. QED
  BY <1>1, <1>3, <1>4, <1>5, OtherKeeps

\* The end of a namespace keeps the invariant.
LEMMA EndKeeps ==
  ASSUME IInv, End
  PROVE  IInv'
<1>. DEFINE c == [[context EXCEPT !.namespaces = Front(@)] EXCEPT !.next = @ + 1]
<1>1. Reading("end") /\ Going
  BY DEF End
<1>2. CASE Stopped
  BY <1>1, <1>2, StoppedKeeps
<1>3. CASE Atop(c)
  <2>2. /\ DOMAIN context = Fields /\ Stated(context) /\ item.kind = "end"
        /\ context.pass = "top level"
    BY <1>1, ItemIs
  <2>3. /\ DOMAIN c = Fields /\ c.file = context.file /\ c.next = context.next + 1
        /\ c.pass = context.pass /\ c.uses = context.uses /\ c.imports = context.imports
        /\ c.paths = context.paths /\ c.namespaces = Front(context.namespaces)
        /\ c.messages = context.messages /\ c.bodies = context.bodies
        /\ c.variables = context.variables /\ c.constants = context.constants
        /\ c.declared = context.declared
    BY <2>2 DEF Fields
  <2>. HIDE DEF c
  <2>4. Behind(c)
    BY <2>2, <2>3 DEF Behind, Opened
  <2>5. Tells(c)
    BY <2>2, <2>3 DEF Tells, Stated, Typed
  <2>. QED
    BY <1>1, <1>3, <2>3, <2>4, <2>5, OtherKeeps
<1>. QED
  BY <1>2, <1>3 DEF End, Parsed

\* A visibility keeps the invariant.
LEMMA VisibilityKeeps ==
  ASSUME IInv, Visibility
  PROVE  IInv'
<1>. DEFINE c == [[context EXCEPT !.visibility = item.name[1]] EXCEPT !.next = @ + 1]
<1>1. Reading("visibility") /\ Atop(c) /\ Going
  BY DEF Visibility, Parsed
<1>2. /\ DOMAIN context = Fields /\ Stated(context) /\ item.kind = "visibility"
      /\ context.pass = "top level"
  BY <1>1, ItemIs
<1>3. /\ DOMAIN c = Fields /\ c.file = context.file /\ c.next = context.next + 1
      /\ c.pass = context.pass /\ c.uses = context.uses /\ c.imports = context.imports
      /\ c.paths = context.paths /\ c.namespaces = context.namespaces
      /\ c.messages = context.messages /\ c.bodies = context.bodies
      /\ c.variables = context.variables /\ c.constants = context.constants
      /\ c.declared = context.declared
  BY <1>2 DEF Fields
<1>. HIDE DEF c
<1>4. Behind(c)
  BY <1>2, <1>3 DEF Behind, Opened
<1>5. Tells(c)
  BY <1>2, <1>3 DEF Tells, Stated, Typed
<1>. QED
  BY <1>1, <1>3, <1>4, <1>5, OtherKeeps

-----------------------------------------------------------------------------
(* Imports. *)

\* Nothing is known of a file that has not been read.
LEMMA ParseContextIs ==
  ASSUME program \in Programs, NEW file \in DOMAIN program
  PROVE  /\ Stated(ParseContext(file)) /\ ParseContext(file).file = file
         /\ \A c : c = ParseContext(file) => Done(c, c.next - 1)
<1>. DEFINE c == ParseContext(file)
            text == program[file]
<1>1. /\ DOMAIN c = Fields /\ c.file = file /\ c.next = 1 /\ c.pass = "top level"
      /\ c.namespaces = <<>> /\ c.variables = <<>> /\ c.constants = <<>> /\ c.imports = <<>>
      /\ c.paths = <<>> /\ c.bodies = <<>> /\ c.declared = {} /\ c.uses = {}
  BY DEF ParseContext, Fields
<1>0. c.messages = FALSE
  BY DEF ParseContext
<1>2. text \in Seq(Items)
  BY Texts
<1>3. Len(text) \in Nat /\ Open(text)[0] = <<>>
  BY <1>2, OpenIs
<1>4. Typed(c)
  <2>1. <<>> \in Seq(Bodies) /\ Sequence(<<>>)
    BY DEF Sequence
  <2>2. c.next \in 1 .. Len(program[c.file]) + 1
    <3>. DEFINE l == Len(text)
    <3>1. l \in Nat
      BY <1>3
    <3>. HIDE DEF l
    <3>2. 1 \in 1 .. l + 1
      BY <3>1
    <3>. QED
      BY <1>1, <3>2 DEF l
  <2>. HIDE DEF c
  <2>3. c.messages \in BOOLEAN
    BY <1>0
  <2>. QED
    BY <1>1, <2>1, <2>2, <2>3 DEF Typed, Passes
<1>. HIDE DEF c
<1>5. Tables(c)
  <2>1. DOMAIN <<>> = {}
    OBVIOUS
  <2>. QED
    BY <1>1, <2>1 DEF Tables, Sound
<1>6. Uses(c)
  BY <1>1 DEF Uses
<1>7. Stages(c)
  <2>0. c.next = 1
    BY <1>1
  <2>1. c.next - 1 = 0
    BY <2>0
  <2>. QED
    BY <1>1, <1>3, <2>1 DEF Stages
<1>8. Done(c, c.next - 1)
  <2>1. c.next = 1
    BY <1>1
  <2>2. 1 .. c.next - 1 = {}
    BY <2>1
  <2>. QED
    BY <2>2 DEF Done
<1>. QED
  BY <1>1, <1>4, <1>5, <1>6, <1>7, <1>8 DEF Stated, c

\* An import of a file begins.
LEMMA PushKeeps ==
  ASSUME IInv, Reading("import"), Going, item.name[1] \in DOMAIN program,
         NEW c, c = [context EXCEPT !.next = @ + 1],
         contexts' = Append(Front(contexts), c) \o <<ParseContext(item.name[1])>>
  PROVE  IInv'
<1>. DEFINE n == Len(contexts)
            file == item.name[1]
            text == program[context.file]
            p == ParseContext(file)
            front == Append(Front(contexts), c)
<1>1. /\ Sequence(contexts) /\ contexts # <<>> /\ context = contexts[n]
      /\ program' = program /\ emitted' = emitted
  BY DEF IInv, context, Last, Going
<1>2. /\ DOMAIN context = Fields /\ Stated(context) /\ context.pass = "top level"
      /\ item.kind = "import" /\ item = text[context.next]
      /\ context.next \in 1 .. Len(text) /\ Len(text) \in Nat
      /\ Open(text)[context.next] = Opened(context.namespaces, item)
  BY ItemIs
<1>3. /\ DOMAIN c = Fields /\ c.file = context.file /\ c.next = context.next + 1
      /\ c.pass = context.pass /\ c.uses = context.uses /\ c.imports = context.imports
      /\ c.paths = context.paths /\ c.namespaces = context.namespaces
      /\ c.messages = context.messages /\ c.bodies = context.bodies
      /\ c.variables = context.variables /\ c.constants = context.constants
      /\ c.declared = context.declared
  BY <1>2 DEF Fields
<1>4. /\ Sequence(contexts') /\ Len(contexts') = n + 1 /\ contexts' # <<>>
      /\ \A k \in 1 .. n - 1 : contexts'[k] = contexts[k]
      /\ contexts'[n] = c /\ contexts'[n + 1] = p
      /\ n \in Nat /\ n >= 1
  <2>1. /\ Sequence(front) /\ Len(front) = n /\ front[n] = c
        /\ \A k \in 1 .. n - 1 : front[k] = contexts[k]
        /\ n \in Nat /\ n >= 1
    <3>1. /\ Sequence(front) /\ Len(front) = n /\ front[Len(front)] = c
          /\ \A k \in 1 .. Len(contexts) - 1 : front[k] = contexts[k]
          /\ Len(contexts) \in Nat /\ Len(contexts) >= 1
      BY <1>1, Replaced, SMTT(30)
    <3>. HIDE DEF front
    <3>. QED
      BY <3>1
  <2>2. contexts' = Append(front, p)
    <3>1. PICK S : front \in Seq(S)
      BY <2>1 DEF Sequence
    <3>. HIDE DEF front, p
    <3>2. front \in Seq(S \cup {p}) /\ p \in S \cup {p}
      BY <3>1
    <3>3. front \o <<p>> = Append(front, p)
      BY <3>2
    <3>. QED
      BY <3>3 DEF front, p
  <2>. HIDE DEF front, p, n
  <2>3. /\ Sequence(contexts') /\ Len(contexts') = n + 1
        /\ \A k \in 1 .. n : contexts'[k] = front[k]
        /\ contexts'[n + 1] = p
    <3>1. /\ Sequence(Append(front, p)) /\ Len(Append(front, p)) = Len(front) + 1
          /\ \A k \in 1 .. Len(front) : Append(front, p)[k] = front[k]
          /\ Append(front, p)[Len(front) + 1] = p
      BY <2>1, Appended
    <3>. QED
      BY <2>1, <2>2, <3>1
  <2>4. n \in 1 .. n /\ \A k \in 1 .. n - 1 : k \in 1 .. n
    BY <2>1
  <2>5. contexts' # <<>>
    BY <2>1, <2>3
  <2>. QED
    BY <2>1, <2>3, <2>4, <2>5
<1>. HIDE DEF front, n, p
<1>5. context' = p
  BY <1>4 DEF context, Last
<1>6. Stated(p) /\ Done(p, p.next - 1) /\ p.file = file
  BY ParseContextIs DEF p, IInv
<1>7. c.next \in 1 .. Len(text) + 1 /\ c.next - 1 = context.next /\ c.next - 2 = context.next - 1
      /\ c.next > 1
  <2>. DEFINE l == Len(text)
              m == context.next
              next == c.next
  <2>1. l \in Nat /\ m \in 1 .. l /\ next = m + 1
    BY <1>2, <1>3
  <2>. HIDE DEF l, m, next
  <2>2. next \in 1 .. l + 1 /\ next - 1 = m /\ next - 2 = m - 1 /\ next > 1
    BY <2>1
  <2>. QED
    BY <2>2 DEF l, m, next
<1>8. Stated(c)
  <2>1. Typed(c)
    BY <1>2, <1>3, <1>7 DEF Stated, Typed
  <2>2. Tables(c)
    BY <1>2, <1>3 DEF Stated, Tables
  <2>3. Uses(c)
    BY <1>2, <1>3 DEF Stated, Uses
  <2>4. Stages(c)
    <3>1. context.namespaces = Opened(context.namespaces, item) /\ context.uses = {}
      BY <1>2 DEF Opened, Stated, Stages
    <3>. QED
      BY <1>2, <1>3, <1>7, <3>1 DEF Stages
  <2>. QED
    BY <2>1, <2>2, <2>3, <2>4 DEF Stated
<1>9. Done(c, c.next - 2) /\ Waits(c, file)
  <2>1. Done(context, context.next - 1)
    BY DEF IInv
  <2>2. Keeps(context, c)
    BY <1>3 DEF Keeps, Read, Skipped
  <2>3. Done(c, context.next - 1)
    BY <1>3, <2>1, <2>2, HandledStays DEF Done
  <2>4. Waits(c, file)
    BY <1>2, <1>3, <1>7 DEF Waits
  <2>. QED
    BY <1>7, <2>3, <2>4
<1>10. \A k \in 1 .. n + 1 : Stated(contexts'[k])
  <2>1. \A k \in 1 .. n - 1 : Stated(contexts[k])
    BY <1>4 DEF IInv, n
  <2>2. \A k \in 1 .. n + 1 : k = n + 1 \/ k = n \/ k \in 1 .. n - 1
    BY <1>4
  <2>. QED
    BY <1>4, <1>6, <1>8, <2>1, <2>2
<1>11. \A k \in 1 .. n :
         Done(contexts'[k], contexts'[k].next - 2) /\ Waits(contexts'[k], contexts'[k + 1].file)
  <2>1. ASSUME NEW k \in 1 .. n - 1
        PROVE  /\ Done(contexts'[k], contexts'[k].next - 2)
               /\ Waits(contexts'[k], contexts'[k + 1].file)
    <3>0. n \in Nat
      BY <1>4
    <3>1. k + 1 \in 1 .. n /\ (k + 1 = n \/ k + 1 \in 1 .. n - 1)
      BY <3>0
    <3>2. contexts'[k + 1].file = contexts[k + 1].file /\ contexts'[k] = contexts[k]
      BY <1>1, <1>3, <1>4, <3>1
    <3>. QED
      BY <3>2 DEF IInv, n
  <2>2. \A k \in 1 .. n : k = n \/ k \in 1 .. n - 1
    BY <1>4
  <2>3. contexts'[n].file = c.file /\ contexts'[n + 1].file = file
    BY <1>4, <1>6
  <2>. QED
    BY <1>4, <1>9, <2>1, <2>2, <2>3
<1>12. \A d : Stated(d) => Stated(d)'
  BY <1>1, StatedStays
<1>13. \A d, m : Done(d, m) => Done(d, m)'
  BY <1>1, DoneStays
<1>14. \A d, f : Waits(d, f) => Waits(d, f)'
  BY <1>1 DEF Waits
<1>15. \A k \in 1 .. Len(contexts') : Stated(contexts[k])'
  BY <1>4, <1>10, <1>12
<1>16. Done(context, context.next - 1)'
  BY <1>5, <1>6, <1>13
<1>17. \A k \in 1 .. Len(contexts') - 1 :
         Done(contexts[k], contexts[k].next - 2)' /\ Waits(contexts[k], contexts[k + 1].file)'
  <2>1. Len(contexts') - 1 = n
    BY <1>4
  <2>. QED
    BY <2>1, <1>11, <1>13, <1>14
<1>18. \A e \in emitted' : Stated(e)' /\ e.pass = "parsed" /\ Done(e, e.next - 1)'
  BY <1>1, <1>12, <1>13 DEF IInv
<1>. QED
  BY <1>1, <1>4, <1>15, <1>16, <1>17, <1>18 DEF IInv

\* An import keeps the invariant, whether there is such a file or not.
LEMMA ImportKeeps ==
  ASSUME IInv, Import
  PROVE  IInv'
<1>. DEFINE c == [[context EXCEPT !.messages = TRUE] EXCEPT !.next = @ + 1]
<1>1. Reading("import") /\ Going
  BY DEF Import
<1>2. CASE Text(item.name[1]) = <<>>
  <2>1. Atop(c)
    BY <1>2 DEF Import, Parsed
  <2>2. /\ DOMAIN context = Fields /\ Stated(context) /\ item.kind = "import"
        /\ context.pass = "top level"
    BY <1>1, ItemIs
  <2>3. /\ DOMAIN c = Fields /\ c.file = context.file /\ c.next = context.next + 1
        /\ c.pass = context.pass /\ c.uses = context.uses /\ c.imports = context.imports
        /\ c.paths = context.paths /\ c.namespaces = context.namespaces
        /\ c.messages /\ c.messages \in BOOLEAN /\ c.bodies = context.bodies
        /\ c.variables = context.variables /\ c.constants = context.constants
        /\ c.declared = context.declared
    BY <2>2 DEF Fields
  <2>. HIDE DEF c
  <2>4. Behind(c)
    BY <2>2, <2>3 DEF Behind, Opened
  <2>5. Tells(c)
    BY <2>3 DEF Tells
  <2>6. Defines(c)
    BY <2>2, <2>3, SameDefines
  <2>7. Handled(c, context.next)
    <3>1. /\ "import" \notin Defining /\ "import" \notin Variables /\ "import" \notin Constants
      BY DEF Defining, Variables, Constants
    <3>2. Skipped(c)
      BY <2>2, <2>3 DEF Skipped
    <3>. QED
      BY <1>1, <2>3, <3>1, <3>2, ItemHandled
  <2>. QED
    BY <1>1, <2>1, <2>4, <2>5, <2>6, <2>7, ItemKeeps
<1>3. CASE Text(item.name[1]) # <<>>
  <2>1. item.name[1] \in DOMAIN program
    BY <1>3 DEF Text
  <2>2. contexts' = Append(Front(contexts), [context EXCEPT !.next = @ + 1])
                      \o <<ParseContext(item.name[1])>>
    BY <1>3 DEF Import
  <2>. QED
    BY <1>1, <2>1, <2>2, PushKeeps
<1>. QED
  BY <1>2, <1>3

-----------------------------------------------------------------------------
(* The ends of the passes. *)

\* c is the innermost context in another pass.
LEMMA PassKeeps ==
  ASSUME IInv, NEW c, Atop(c), Going, DOMAIN context = Fields, Stated(context),
         DOMAIN c = Fields, c.file = context.file, c.next = context.next,
         c.imports = context.imports, c.paths = context.paths, c.declared = context.declared,
         c.variables = context.variables, c.constants = context.constants,
         c.uses = context.uses, c.bodies = context.bodies, c.messages = context.messages,
         c.pass \in Passes, Stages(c), c.pass # "failed" => context.pass # "failed",
         Skipped(context) => c.pass = "failed"
  PROVE  IInv'
<1>1. Typed(c)
  BY DEF Stated, Typed
<1>2. Tables(c)
  BY DEF Stated, Tables
<1>3. Uses(c)
  BY DEF Stated, Uses
<1>4. Done(c, c.next - 1)
  <2>1. CASE c.pass = "failed"
    BY <2>1 DEF Done
  <2>2. CASE c.pass # "failed"
    <3>1. Keeps(context, c)
      BY <2>2 DEF Keeps, Read
    <3>2. Done(context, context.next - 1)
      BY DEF IInv
    <3>. QED
      BY <2>2, <3>1, <3>2, HandledStays DEF Done
  <2>. QED
    BY <2>1, <2>2
<1>5. program' = program /\ emitted' = emitted
  BY DEF Going
<1>. QED
  BY <1>1, <1>2, <1>3, <1>4, <1>5, AtopKeeps DEF Stated

\* The innermost context is what it should be.
LEMMA ContextIs ==
  ASSUME IInv
  PROVE  /\ Stated(context) /\ DOMAIN context = Fields /\ Done(context, context.next - 1)
         /\ context.messages \in BOOLEAN
<1>1. Len(contexts) \in 1 .. Len(contexts)
  BY Taken DEF IInv
<1>2. Stated(context)
  BY <1>1 DEF IInv, context, Last
<1>. QED
  BY <1>2 DEF IInv, Stated, Typed

\* No import has failed where bodies are read.
LEMMA EndOfTopLevelKeeps ==
  ASSUME IInv, EndOfTopLevel
  PROVE  IInv'
<1>. DEFINE pass == IF context.messages \/ context.next = 1 THEN "failed" ELSE "bodies"
            c == [context EXCEPT !.namespaces = <<>>, !.pass = pass]
<1>1. /\ Atop(c) /\ Going /\ context.pass = "top level"
      /\ context.next = Len(program[context.file]) + 1
  BY DEF EndOfTopLevel
<1>2. DOMAIN context = Fields /\ Stated(context)
  BY ContextIs
<1>3. pass \in {"failed", "bodies"} /\ (context.messages => pass = "failed")
  OBVIOUS
<1>. HIDE DEF pass
<1>4. /\ DOMAIN c = Fields /\ c.file = context.file /\ c.next = context.next
      /\ c.pass = pass /\ c.uses = context.uses /\ c.imports = context.imports
      /\ c.paths = context.paths /\ c.messages = context.messages /\ c.bodies = context.bodies
      /\ c.variables = context.variables /\ c.constants = context.constants
      /\ c.declared = context.declared
  BY <1>2 DEF Fields
<1>. HIDE DEF c
<1>5. Stages(c)
  BY <1>1, <1>3, <1>4 DEF Stages
<1>6. c.pass \in Passes /\ (c.pass # "failed" => context.pass # "failed")
  BY <1>1, <1>3, <1>4 DEF Passes
<1>7. Skipped(context) => c.pass = "failed"
  BY <1>3, <1>4 DEF Skipped
<1>. QED
  BY <1>1, <1>2, <1>4, <1>5, <1>6, <1>7, PassKeeps

\* A file has been read to its end.
LEMMA EndOfBodiesKeeps ==
  ASSUME IInv, EndOfBodies
  PROVE  IInv'
<1>. DEFINE pass == IF context.messages THEN "failed" ELSE "parsed"
            c == [context EXCEPT !.pass = pass]
<1>1. Atop(c) /\ Going /\ context.pass = "bodies" /\ context.bodies = <<>>
  BY DEF EndOfBodies
<1>2. DOMAIN context = Fields /\ Stated(context)
  BY ContextIs
<1>3. pass \in {"failed", "parsed"} /\ (pass = "parsed" => ~context.messages)
  OBVIOUS
<1>. HIDE DEF pass
<1>4. /\ DOMAIN c = Fields /\ c.file = context.file /\ c.next = context.next
      /\ c.pass = pass /\ c.uses = context.uses /\ c.imports = context.imports
      /\ c.paths = context.paths /\ c.messages = context.messages /\ c.bodies = context.bodies
      /\ c.variables = context.variables /\ c.constants = context.constants
      /\ c.declared = context.declared
  BY <1>2 DEF Fields
<1>. HIDE DEF c
<1>5. Stages(c)
  <2>1. context.next = Len(program[context.file]) + 1
    BY <1>1, <1>2 DEF Stated, Stages
  <2>. QED
    BY <1>1, <1>3, <1>4, <2>1 DEF Stages
<1>6. c.pass \in Passes /\ (c.pass # "failed" => context.pass # "failed")
  BY <1>1, <1>3, <1>4 DEF Passes
<1>7. Skipped(context) => c.pass = "failed"
  BY <1>1 DEF Skipped
<1>. QED
  BY <1>1, <1>2, <1>4, <1>5, <1>6, <1>7, PassKeeps

-----------------------------------------------------------------------------
(* The bodies. *)

\* What a table has for a name.
LEMMA AtIs ==
  ASSUME NEW table, NEW kinds, NEW files, Sound(table, kinds, files), "undefined" \notin kinds,
         NEW name
  PROVE  /\ At(table, name) # Undefined <=> name \in DOMAIN table
         /\ At(table, name) # Undefined =>
              /\ At(table, name).name = name /\ At(table, name).kind \in kinds
              /\ \E file \in files : At(table, name) \in Definitions(file)
<1>1. Undefined.kind = "undefined"
  BY DEF Undefined, Definition
<1>2. CASE name \in DOMAIN table
  <2>1. /\ table[name].name = name /\ table[name].kind \in kinds
        /\ \E file \in files : table[name] \in Definitions(file)
    BY <1>2 DEF Sound
  <2>2. At(table, name) = table[name]
    BY <1>2 DEF At
  <2>. QED
    BY <1>1, <1>2, <2>1, <2>2
<1>3. CASE name \notin DOMAIN table
  BY <1>3 DEF At
<1>. QED
  BY <1>2, <1>3

\* Two tables, one after the other.
LEMMA SoundOrElse ==
  ASSUME NEW table, NEW other, NEW kinds, NEW files, NEW others,
         Sound(table, kinds, files), Sound(other, kinds, others)
  PROVE  /\ Sound(OrElse(table, other), kinds, files \cup others)
         /\ DOMAIN OrElse(table, other) = DOMAIN table \cup DOMAIN other
<1>1. DOMAIN OrElse(table, other) = DOMAIN table \cup DOMAIN other
  BY DEF OrElse
<1>2. \A name \in DOMAIN table \cup DOMAIN other :
        OrElse(table, other)[name] = IF name \in DOMAIN table THEN table[name] ELSE other[name]
  BY DEF OrElse
<1>. QED
  BY <1>1, <1>2 DEF Sound

\* What imports know.
LEMMA SoundImported ==
  ASSUME IInv
  PROVE  /\ Sound(Imported(context, "variables"), Variables, Reachable(context.file))
         /\ Sound(Imported(context, "constants"), Constants, Reachable(context.file))
<1>1. /\ \A i \in DOMAIN context.imports :
           /\ Sound(context.imports[i].variables, Variables, Reachable(context.file))
           /\ Sound(context.imports[i].constants, Constants, Reachable(context.file))
      /\ Sequence(context.imports)
  BY ContextIs DEF Stated, Typed, Tables, SoundView
<1>2. \A name \in DOMAIN Imported(context, "variables") : \E i \in DOMAIN context.imports :
        /\ name \in DOMAIN context.imports[i].variables
        /\ Imported(context, "variables")[name] = context.imports[i].variables[name]
  BY <1>1, ImportedIs
<1>3. \A name \in DOMAIN Imported(context, "constants") : \E i \in DOMAIN context.imports :
        /\ name \in DOMAIN context.imports[i].constants
        /\ Imported(context, "constants")[name] = context.imports[i].constants[name]
  BY <1>1, ImportedIs
<1>. QED
  BY <1>1, <1>2, <1>3 DEF Sound

\* All items have been dealt with when the bodies are read.
LEMMA AllHandled ==
  ASSUME program \in Programs, NEW c, Stated(c), c.pass \in {"bodies", "parsed"},
         Done(c, c.next - 1)
  PROVE  \A i \in 1 .. Len(program[c.file]) : Handled(c, i)
<1>. DEFINE l == Len(program[c.file])
<1>1. c.next = l + 1 /\ c.file \in DOMAIN program
  BY DEF Stated, Stages, Typed
<1>2. \A i \in 1 .. c.next - 1 : Handled(c, i)
  BY DEF Done
<1>. DEFINE next == c.next
<1>3. next = l + 1 /\ l \in Nat
  <2>1. program[c.file] \in Seq(Items)
    BY <1>1, Texts
  <2>. QED
    BY <1>1, <2>1
<1>. HIDE DEF l
<1>4. next - 1 = l
  <2>. HIDE DEF next
  <2>. QED
    BY <1>3
<1>. QED
  BY <1>2, <1>4 DEF l

\* The tables have all that is defined in the file and in what it imports.
LEMMA AllKnown ==
  ASSUME IInv, context.pass \in {"bodies", "parsed"}
  PROVE  /\ Complete(context.variables, context.constants, context.file)
         /\ \A f \in Reachable(context.file) : \E j \in DOMAIN context.imports :
              Complete(context.imports[j].variables, context.imports[j].constants, f)
<1>1. \A i \in 1 .. Len(program[context.file]) : Handled(context, i)
  BY ContextIs, AllHandled DEF IInv
<1>2. context.file \in DOMAIN program /\ program \in Programs
  BY ContextIs DEF Stated, Typed, IInv
<1>3. ASSUME NEW d \in Definitions(context.file)
      PROVE  /\ d.kind \in Variables => d.name \in DOMAIN context.variables
             /\ d.kind \in Constants => d.name \in DOMAIN context.constants
  <2>1. PICK i \in 1 .. Len(program[context.file]) : d = The(context.file, i)
    BY <1>2, DefinitionsAre, SMTT(30)
  <2>2. d.kind = program[context.file][i].kind
    BY <2>1 DEF The, Definition
  <2>. QED
    BY <1>1, <2>1, <2>2 DEF Handled
<1>4. ASSUME NEW f \in Reachable(context.file)
      PROVE  \E j \in DOMAIN context.imports :
               Complete(context.imports[j].variables, context.imports[j].constants, f)
  <2>1. PICK g \in ImportsOf(context.file) : f = g \/ f \in Reachable(g)
    BY ReachableIs
  <2>2. PICK i \in 1 .. Len(program[context.file]) :
          program[context.file][i].kind = "import" /\ program[context.file][i].name[1] = g
    BY <1>2, ImportsAre
  <2>3. ~Skipped(context)
    BY DEF Skipped
  <2>4. \E j \in DOMAIN context.imports : CompleteView(context.imports[j], g)
    <3>1. Handled(context, i)
      BY <1>1
    <3>. QED
      BY <2>2, <2>3, <3>1 DEF Handled
  <2>. QED
    BY <2>1, <2>4 DEF CompleteView
<1>. QED
  BY <1>3, <1>4 DEF Complete

\* What a file tells its importer.
LEMMA ViewIs ==
  ASSUME IInv, context.pass \in {"bodies", "parsed"}
  PROVE  /\ SoundView(View(context), {context.file} \cup Reachable(context.file))
         /\ CompleteView(View(context), context.file)
<1>. DEFINE variables == Imported(context, "variables")
            constants == Imported(context, "constants")
<1>1. /\ Sound(context.variables, Variables, {context.file})
      /\ Sound(context.constants, Constants, {context.file})
      /\ Sequence(context.imports)
  BY ContextIs DEF Stated, Typed, Tables
<1>2. /\ Sound(variables, Variables, Reachable(context.file))
      /\ Sound(constants, Constants, Reachable(context.file))
  BY SoundImported
<1>3. /\ \A i \in DOMAIN context.imports :
           DOMAIN context.imports[i].variables \subseteq DOMAIN variables
      /\ \A i \in DOMAIN context.imports :
           DOMAIN context.imports[i].constants \subseteq DOMAIN constants
  BY <1>1, ImportedIs
<1>4. /\ View(context).variables = OrElse(context.variables, variables)
      /\ View(context).constants = OrElse(context.constants, constants)
  BY DEF View
<1>. HIDE DEF variables, constants
<1>5. /\ Sound(OrElse(context.variables, variables), Variables,
            {context.file} \cup Reachable(context.file))
      /\ Sound(OrElse(context.constants, constants), Constants,
            {context.file} \cup Reachable(context.file))
      /\ DOMAIN OrElse(context.variables, variables)
           = DOMAIN context.variables \cup DOMAIN variables
      /\ DOMAIN OrElse(context.constants, constants)
           = DOMAIN context.constants \cup DOMAIN constants
  BY <1>1, <1>2, SoundOrElse
<1>6. ASSUME NEW f \in {context.file} \cup Reachable(context.file)
      PROVE  Complete(View(context).variables, View(context).constants, f)
  BY <1>3, <1>4, <1>5, AllKnown DEF Complete
<1>. QED
  BY <1>4, <1>5, <1>6 DEF SoundView, CompleteView

\* A name means what it can mean.
LEMMA FoundRight ==
  ASSUME IInv, context.pass = "bodies", NEW body \in Bodies, NEW name, NEW use,
         use.namespace = FlattenSeq(body.namespaces), use.parameter = body.parameter,
         use.name = name,
         use.definition = Found(InScope(context, body), body.parameter, name)
  PROVE  Right(context.file, use)
<1>. DEFINE c == InScope(context, body)
            file == context.file
            full == use.namespace \o name
            constant == At(View(context).constants, name)
            own == At(context.variables, name)
            ownFull == At(context.variables, full)
            imported == At(Imported(context, "variables"), name)
            parameter == IF name = body.parameter THEN Definition(file, "parameter", name)
                         ELSE Undefined
<1>1. /\ c.file = file /\ c.variables = context.variables /\ c.constants = context.constants
      /\ c.imports = context.imports /\ fullNamespace(c) = use.namespace
  <2>1. DOMAIN context = Fields
    BY ContextIs
  <2>. QED
    BY <2>1 DEF InScope, fullNamespace, Fields
<1>2. /\ Imported(c, "variables") = Imported(context, "variables")
      /\ Imported(c, "constants") = Imported(context, "constants")
  BY <1>1 DEF Imported
<1>3. use.definition =
        IF constant # Undefined THEN constant
        ELSE IF own # Undefined THEN own
        ELSE IF ownFull # Undefined THEN ownFull
        ELSE IF imported # Undefined THEN imported
        ELSE parameter
  <2>1. constantForName(c, name) = constant
    BY <1>1, <1>2 DEF constantForName, View
  <2>2. variableForName(c, name) = FirstDefined(<<own, ownFull, imported>>)
    BY <1>1, <1>2 DEF variableForName
  <2>3. use.definition =
          FirstDefined(<<constant, FirstDefined(<<own, ownFull, imported>>), parameter>>)
    BY <1>1, <2>1, <2>2 DEF Found
  <2>. HIDE DEF constant, own, ownFull, imported, parameter
  <2>. DEFINE variable == FirstDefined(<<own, ownFull, imported>>)
  <2>4. variable = IF own # Undefined THEN own
                   ELSE IF ownFull # Undefined THEN ownFull ELSE imported
    BY FirstOfThree
  <2>. HIDE DEF variable
  <2>5. FirstDefined(<<constant, variable, parameter>>) =
          IF constant # Undefined THEN constant
          ELSE IF variable # Undefined THEN variable ELSE parameter
    BY FirstOfThree
  <2>. QED
    BY <2>3, <2>4, <2>5 DEF variable
<1>4. /\ "undefined" \notin Variables /\ "undefined" \notin Constants
      /\ "type" \notin Variables /\ "type" \notin Constants
  BY DEF Variables, Constants
<1>. DEFINE files == {file} \cup Reachable(file)
<1>5. /\ Sound(View(context).constants, Constants, files)
      /\ Sound(context.variables, Variables, {file})
      /\ Sound(Imported(context, "variables"), Variables, Reachable(file))
  BY ViewIs, ContextIs, SoundImported DEF SoundView, Stated, Tables
<1>6. /\ constant # Undefined <=> name \in DOMAIN View(context).constants
      /\ constant # Undefined =>
           /\ constant.name = name /\ constant.kind \in Constants
           /\ \E f \in files : constant \in Definitions(f)
  BY <1>4, <1>5, AtIs
<1>7. /\ own # Undefined <=> name \in DOMAIN context.variables
      /\ own # Undefined =>
           /\ own.name = name /\ own.kind \in Variables /\ own \in Definitions(file)
  BY <1>4, <1>5, AtIs
<1>8. /\ ownFull # Undefined <=> full \in DOMAIN context.variables
      /\ ownFull # Undefined =>
           /\ ownFull.name = full /\ ownFull.kind \in Variables /\ ownFull \in Definitions(file)
  <2>. HIDE DEF full, file
  <2>. QED
    BY <1>4, <1>5, AtIs
<1>9. /\ imported # Undefined <=> name \in DOMAIN Imported(context, "variables")
      /\ imported # Undefined =>
           /\ imported.name = name /\ imported.kind \in Variables
           /\ \E f \in Reachable(file) : imported \in Definitions(f)
  BY <1>4, <1>5, AtIs
<1>10. parameter # Undefined <=> name = body.parameter
  BY DEF Definition, Undefined
<1>11. parameter # Undefined =>
         parameter \in {d \in {Definition(file, "parameter", name)} : name = use.parameter}
  BY <1>10
<1>. HIDE DEF constant, own, ownFull, imported, parameter, full, c, file, files
<1>12. ASSUME NEW d
       PROVE  d \in Candidates(file, use) <=>
                \/ /\ d \in Definitions(file)
                   /\ \/ d.kind # "type" /\ d.name = name
                      \/ d.kind \in Variables /\ d.name = full
                \/ /\ \E f \in Reachable(file) : d \in Definitions(f)
                   /\ d.kind # "type" /\ d.name = name
                \/ d = Definition(file, "parameter", name) /\ name = body.parameter
  BY DEF Candidates, Variables, full
<1>13. CASE use.definition # Undefined
  <2>1. constant # Undefined => constant \in Candidates(file, use)
    BY <1>4, <1>6, <1>12 DEF files
  <2>2. own # Undefined => own \in Candidates(file, use)
    BY <1>4, <1>7, <1>12
  <2>3. ownFull # Undefined => ownFull \in Candidates(file, use)
    BY <1>4, <1>8, <1>12
  <2>4. imported # Undefined => imported \in Candidates(file, use)
    BY <1>4, <1>9, <1>12
  <2>5. parameter # Undefined => parameter \in Candidates(file, use)
    BY <1>10, <1>12 DEF parameter
  <2>. QED
    BY <1>3, <1>13, <2>1, <2>2, <2>3, <2>4, <2>5 DEF Right, file
<1>14. CASE use.definition = Undefined
  <2>1. /\ constant = Undefined /\ own = Undefined /\ ownFull = Undefined
        /\ imported = Undefined /\ parameter = Undefined
    BY <1>3, <1>14
  <2>2. /\ name \notin DOMAIN View(context).constants /\ name \notin DOMAIN context.variables
        /\ full \notin DOMAIN context.variables
        /\ name \notin DOMAIN Imported(context, "variables") /\ name # body.parameter
    BY <1>6, <1>7, <1>8, <1>9, <1>10, <2>1
  <2>3. /\ \A f \in files : Complete(View(context).variables, View(context).constants, f)
        /\ Complete(context.variables, context.constants, file)
    BY ViewIs, AllKnown DEF CompleteView, file, files
  <2>4. name \notin DOMAIN View(context).variables
    BY <2>2 DEF View, OrElse
  <2>5. \A f, d : d \in Definitions(f) => d.kind \in Defining
    BY NoDefinitions
  <2>6. \A kind \in Defining : kind # "type" => kind \in Variables \/ kind \in Constants
    BY DEF Defining, Variables, Constants
  <2>7. ASSUME NEW f \in files, NEW d \in Definitions(f), d.kind # "type", d.name = name
        PROVE  FALSE
    BY <2>2, <2>3, <2>4, <2>5, <2>6, <2>7 DEF Complete
  <2>8. ASSUME NEW d \in Definitions(file), d.kind \in Variables, d.name = full
        PROVE  FALSE
    BY <2>2, <2>3, <2>8 DEF Complete
  <2>9. \A d : d \notin Candidates(file, use)
    BY <1>12, <2>2, <2>7, <2>8 DEF files
  <2>10. Candidates(file, use) = {}
    BY <2>9
  <2>. QED
    BY <1>14, <2>10 DEF Right, file
<1>. QED
  BY <1>13, <1>14

\* A body keeps the invariant: its names have been looked for, or there is a message.
LEMMA ParseFunctionBodyKeeps ==
  ASSUME IInv, ParseFunctionBody
  PROVE  IInv'
<1>. DEFINE body == Head(context.bodies)
            found == [i \in DOMAIN body.uses |->
                        Found(InScope(context, body), body.parameter, body.uses[i])]
            unknown == {i \in DOMAIN found : found[i] = Undefined}
            read == {i \in DOMAIN found : \A j \in unknown : i <= j}
            Use(i) == [namespace |-> FlattenSeq(body.namespaces), parameter |-> body.parameter,
                       name |-> body.uses[i], definition |-> found[i]]
            new == {Use(i) : i \in read}
            c == [context EXCEPT !.bodies = Tail(@), !.uses = @ \cup new,
                                 !.messages = @ \/ unknown # {}]
<1>1. Atop(c) /\ Going /\ context.pass = "bodies" /\ context.bodies # <<>>
  BY DEF ParseFunctionBody
<1>2. DOMAIN context = Fields /\ Stated(context) /\ context.bodies \in Seq(Bodies)
  BY ContextIs DEF Stated, Typed
<1>3. /\ body \in Bodies /\ Tail(context.bodies) \in Seq(Bodies)
      /\ \A j \in DOMAIN context.bodies :
           \/ j = 1
           \/ \E k \in DOMAIN Tail(context.bodies) : Tail(context.bodies)[k] = context.bodies[j]
      /\ context.bodies[1] = body
  <2>. DEFINE bodies == context.bodies
  <2>1. bodies \in Seq(Bodies) /\ bodies # <<>>
    BY <1>1, <1>2
  <2>. HIDE DEF bodies
  <2>2. /\ Head(bodies) \in Bodies /\ Tail(bodies) \in Seq(Bodies) /\ bodies[1] = Head(bodies)
    BY <2>1
  <2>3. ASSUME NEW j \in DOMAIN bodies, j # 1
        PROVE  j - 1 \in DOMAIN Tail(bodies) /\ Tail(bodies)[j - 1] = bodies[j]
    BY <2>1, <2>3
  <2>. QED
    BY <2>2, <2>3 DEF bodies
<1>. HIDE DEF body
<1>4. /\ \A i \in DOMAIN body.uses :
           found[i] = Found(InScope(context, body), body.parameter, body.uses[i])
      /\ DOMAIN found = DOMAIN body.uses
  OBVIOUS
<1>5. /\ unknown = {} => read = DOMAIN body.uses
      /\ \A i \in read : i \in DOMAIN body.uses
      /\ \A i \in read : found[i] = Undefined => unknown # {}
  <2>. HIDE DEF found
  <2>. QED
    BY <1>4
<1>6. /\ \A use \in new : \E i \in read :
           /\ use.name = body.uses[i] /\ use.definition = found[i]
           /\ use.namespace = FlattenSeq(body.namespaces) /\ use.parameter = body.parameter
      /\ \A i \in read : \E use \in new : use.name = body.uses[i]
  <2>. HIDE DEF found, read
  <2>1. ASSUME NEW i \in read
        PROVE  Use(i) \in new /\ Use(i).name = body.uses[i]
    OBVIOUS
  <2>2. ASSUME NEW use \in new
        PROVE  \E i \in read : use = Use(i)
    OBVIOUS
  <2>3. \A i : /\ Use(i).name = body.uses[i] /\ Use(i).definition = found[i]
               /\ Use(i).namespace = FlattenSeq(body.namespaces)
               /\ Use(i).parameter = body.parameter
    OBVIOUS
  <2>. HIDE DEF new, Use
  <2>. QED
    BY <2>1, <2>2, <2>3
<1>. HIDE DEF found, read, unknown, new, Use
<1>7. /\ DOMAIN c = Fields /\ c.file = context.file /\ c.next = context.next
      /\ c.pass = context.pass /\ c.uses = context.uses \cup new
      /\ c.imports = context.imports /\ c.paths = context.paths
      /\ c.bodies = Tail(context.bodies) /\ c.declared = context.declared
      /\ c.variables = context.variables /\ c.constants = context.constants
  BY <1>2 DEF Fields
<1>8. /\ c.messages \in BOOLEAN /\ (context.messages => c.messages)
      /\ (unknown # {} => c.messages)
  <2>1. c.messages = (context.messages \/ unknown # {})
    BY <1>2 DEF Fields
  <2>. HIDE DEF c
  <2>. QED
    BY <2>1
<1>. HIDE DEF c
<1>9. Typed(c)
  BY <1>2, <1>3, <1>7, <1>8 DEF Stated, Typed
<1>10. Tables(c)
  BY <1>2, <1>7 DEF Stated, Tables
<1>11. Uses(c)
  <2>1. ASSUME NEW use \in context.uses
        PROVE  Right(c.file, use) /\ (c.messages \/ use.definition # Undefined)
    <3>1. Right(context.file, use) /\ (context.messages \/ use.definition # Undefined)
      BY <1>2 DEF Stated, Uses
    <3>. QED
      BY <1>7, <1>8, <3>1
  <2>2. ASSUME NEW use \in new
        PROVE  Right(c.file, use) /\ (c.messages \/ use.definition # Undefined)
    <3>1. PICK i \in read :
            /\ use.name = body.uses[i] /\ use.definition = found[i]
            /\ use.namespace = FlattenSeq(body.namespaces) /\ use.parameter = body.parameter
      BY <1>6
    <3>2. use.definition = Found(InScope(context, body), body.parameter, use.name)
      BY <1>4, <1>5, <3>1
    <3>3. Right(c.file, use)
      BY <1>1, <1>3, <1>7, <3>1, <3>2, FoundRight
    <3>4. use.definition = Undefined => unknown # {}
      BY <1>5, <3>1
    <3>. QED
      BY <1>8, <3>3, <3>4
  <2>. QED
    BY <1>7, <2>1, <2>2 DEF Uses
<1>12. Stages(c)
  BY <1>1, <1>2, <1>7 DEF Stated, Stages
<1>13. \A uses : Read(context, uses) => Read(c, uses)
  <2>. SUFFICES ASSUME NEW uses, Read(context, uses)
                PROVE  Read(c, uses)
    OBVIOUS
  <2>1. CASE context.messages
    BY <1>8, <2>1 DEF Read
  <2>2. CASE \A name \in Range(uses) : \E use \in context.uses : use.name = name
    BY <1>7, <2>2 DEF Read
  <2>3. CASE \E j \in DOMAIN context.bodies : context.bodies[j].uses = uses
    <3>1. PICK j \in DOMAIN context.bodies : context.bodies[j].uses = uses
      BY <2>3
    <3>2. CASE \E k \in DOMAIN c.bodies : c.bodies[k] = context.bodies[j]
      BY <3>1, <3>2 DEF Read
    <3>3. CASE j = 1 /\ unknown = {}
      <4>1. uses = body.uses
        BY <1>3, <3>1, <3>3
      <4>2. ASSUME NEW name \in Range(uses)
            PROVE  \E use \in c.uses : use.name = name
        <5>1. PICK i \in DOMAIN body.uses : name = body.uses[i]
          BY <4>1 DEF Range
        <5>2. i \in read
          BY <1>5, <3>3
        <5>. QED
          BY <1>6, <1>7, <5>1, <5>2
      <4>. QED
        BY <4>2 DEF Read
    <3>4. CASE j = 1 /\ unknown # {}
      BY <1>8, <3>4 DEF Read
    <3>. QED
      BY <1>3, <1>7, <3>2, <3>3, <3>4
  <2>. QED
    BY <2>1, <2>2, <2>3 DEF Read
<1>14. Keeps(context, c)
  BY <1>1, <1>7, <1>13 DEF Keeps, Skipped
<1>15. Done(c, c.next - 1)
  <2>1. Done(context, context.next - 1)
    BY ContextIs
  <2>. QED
    BY <1>1, <1>7, <1>14, <2>1, HandledStays DEF Done
<1>16. program' = program /\ emitted' = emitted
  BY <1>1 DEF Going
<1>. QED
  BY <1>1, <1>7, <1>9, <1>10, <1>11, <1>12, <1>15, <1>16, AtopKeeps, SMTT(30) DEF Stated

-----------------------------------------------------------------------------
(* The ends of imports. *)

\* The context that waits for the innermost one.
LEMMA ImporterIs ==
  ASSUME IInv, Len(contexts) > 1
  PROVE  /\ Stated(Importer) /\ DOMAIN Importer = Fields /\ Importer.pass = "top level"
         /\ Done(Importer, Importer.next - 2) /\ Importer.messages \in BOOLEAN
         /\ Importer.next - 1 \in 1 .. Len(program[Importer.file])
         /\ \A i \in 1 .. Importer.next - 1 : i = Importer.next - 1 \/ i \in 1 .. Importer.next - 2
         /\ program[Importer.file][Importer.next - 1].kind = "import"
         /\ program[Importer.file][Importer.next - 1].name[1] = context.file
         /\ context.file \in ImportsOf(Importer.file)
<1>. DEFINE n == Len(contexts)
            m == n - 1
<1>1. n \in Nat /\ n > 1 /\ context = contexts[n] /\ Importer = contexts[m]
  BY Taken DEF IInv, context, Last, Importer
<1>2. m \in 1 .. n - 1 /\ m \in 1 .. n /\ m + 1 = n
  BY <1>1
<1>3. Stated(Importer)
  BY <1>1, <1>2 DEF IInv
<1>4. Done(contexts[m], contexts[m].next - 2) /\ Waits(contexts[m], contexts[m + 1].file)
  BY <1>2 DEF IInv
<1>. HIDE DEF m, n
<1>5. Done(Importer, Importer.next - 2) /\ Waits(Importer, context.file)
  BY <1>1, <1>2, <1>4
<1>6. /\ Importer.pass = "top level" /\ Importer.next > 1
      /\ program[Importer.file][Importer.next - 1].kind = "import"
      /\ program[Importer.file][Importer.next - 1].name[1] = context.file
  BY <1>5 DEF Waits
<1>7. /\ DOMAIN Importer = Fields /\ Importer.file \in DOMAIN program
      /\ Importer.next \in 1 .. Len(program[Importer.file]) + 1
  BY <1>3 DEF Stated, Typed
<1>8. Importer.messages \in BOOLEAN
  BY <1>3 DEF Stated, Typed
<1>9. /\ Importer.next - 1 \in 1 .. Len(program[Importer.file])
      /\ \A i \in 1 .. Importer.next - 1 : i = Importer.next - 1 \/ i \in 1 .. Importer.next - 2
  <2>. DEFINE l == Len(program[Importer.file])
              next == Importer.next
  <2>1. l \in Nat
    BY <1>7, Texts DEF IInv
  <2>2. next \in 1 .. l + 1 /\ next > 1
    BY <1>6, <1>7
  <2>. HIDE DEF l, next
  <2>3. next - 1 \in 1 .. l /\ \A i \in 1 .. next - 1 : i = next - 1 \/ i \in 1 .. next - 2
    BY <2>1, <2>2
  <2>. QED
    BY <2>3 DEF l, next
<1>10. context.file \in ImportsOf(Importer.file)
  <2>1. program \in Programs
    BY DEF IInv
  <2>. QED
    BY <1>6, <1>7, <1>9, <2>1, ImportsAre
<1>. QED
  BY <1>3, <1>5, <1>6, <1>7, <1>8, <1>9, <1>10

\* The parse of an importer goes on.
LEMMA PopKeeps ==
  ASSUME IInv, Len(contexts) > 1, NEW c, BackTo(c), program' = program, emitted \subseteq emitted',
         \A e \in emitted' \ emitted : Stated(e) /\ e.pass = "parsed" /\ Done(e, e.next - 1),
         c.file = Importer.file, Stated(c), Done(c, c.next - 1)'
  PROVE  IInv'
<1>. DEFINE n == Len(contexts)
            front == Front(contexts)
            m == n - 1
<1>1. Sequence(contexts) /\ contexts # <<>> /\ Importer = contexts[m] /\ n > 1
  BY DEF IInv, Importer
<1>2. /\ Sequence(front) /\ Len(front) = m /\ (\A k \in 1 .. m : front[k] = contexts[k])
      /\ n \in Nat
  BY <1>1, Taken
<1>3. contexts' = Append(Front(front), c)
  BY DEF BackTo
<1>. HIDE DEF front, n
<1>4. front # <<>>
  BY <1>1, <1>2
<1>5. /\ Sequence(contexts') /\ Len(contexts') = Len(front) /\ contexts' # <<>>
      /\ Last(contexts') = c /\ contexts'[Len(contexts')] = c
      /\ \A k \in 1 .. Len(front) - 1 : contexts'[k] = front[k]
  BY <1>2, <1>3, <1>4, Replaced, ZenonT(60)
<1>. HIDE DEF m
<1>6. /\ Sequence(contexts') /\ Len(contexts') = m /\ contexts' # <<>> /\ contexts'[m] = c
      /\ context' = c /\ m \in Nat /\ m = n - 1
      /\ \A k \in 1 .. m - 1 : contexts'[k] = contexts[k] /\ k \in 1 .. n - 1 /\ k \in 1 .. n
  <2>1. m \in Nat /\ m = n - 1
    BY <1>1, <1>2 DEF m
  <2>2. \A k \in 1 .. m - 1 : k \in 1 .. m /\ k \in 1 .. n - 1 /\ k \in 1 .. n
    BY <1>2, <2>1
  <2>3. \A k \in 1 .. m - 1 : contexts'[k] = contexts[k]
    BY <1>2, <1>5, <2>2
  <2>4. context' = c
    BY <1>5 DEF context
  <2>. QED
    BY <1>2, <1>5, <2>1, <2>2, <2>3, <2>4
<1>7. \A k \in 1 .. m : k = m \/ k \in 1 .. m - 1
  <2>1. m \in Nat
    BY <1>6
  <2>. QED
    BY <2>1
<1>8. \A k \in 1 .. m : Stated(contexts'[k])
  <2>1. \A k \in 1 .. m - 1 : Stated(contexts[k])
    BY <1>6 DEF IInv, n
  <2>. QED
    BY <1>6, <1>7, <2>1
<1>9. \A k \in 1 .. m - 1 :
        Done(contexts'[k], contexts'[k].next - 2) /\ Waits(contexts'[k], contexts'[k + 1].file)
  <2>1. ASSUME NEW k \in 1 .. m - 1
        PROVE  /\ Done(contexts'[k], contexts'[k].next - 2)
               /\ Waits(contexts'[k], contexts'[k + 1].file)
    <3>1. k + 1 = m \/ k + 1 \in 1 .. m - 1
      <4>1. m \in Nat
        BY <1>6
      <4>. QED
        BY <4>1
    <3>2. contexts'[k + 1].file = contexts[k + 1].file
      BY <1>1, <1>6, <3>1
    <3>3. Done(contexts[k], contexts[k].next - 2) /\ Waits(contexts[k], contexts[k + 1].file)
      BY <1>6 DEF IInv, n
    <3>. QED
      BY <1>6, <3>2, <3>3
  <2>. QED
    BY <2>1
<1>10. \A d : Stated(d) => Stated(d)'
  BY StatedStays
<1>11. \A d, k : Done(d, k) => Done(d, k)'
  BY DoneStays
<1>12. \A d, f : Waits(d, f) => Waits(d, f)'
  BY DEF Waits
<1>13. \A k \in 1 .. Len(contexts') : Stated(contexts[k])'
  BY <1>6, <1>8, <1>10
<1>14. Done(context, context.next - 1)'
  BY <1>6
<1>15. \A k \in 1 .. Len(contexts') - 1 :
         Done(contexts[k], contexts[k].next - 2)' /\ Waits(contexts[k], contexts[k + 1].file)'
  <2>1. \A k \in 1 .. m - 1 :
         Done(contexts[k], contexts[k].next - 2)' /\ Waits(contexts[k], contexts[k + 1].file)'
    BY <1>9, <1>11, <1>12
  <2>. QED
    BY <1>6, <2>1
<1>16. \A e \in emitted' : Stated(e)' /\ e.pass = "parsed" /\ Done(e, e.next - 1)'
  BY <1>10, <1>11 DEF IInv
<1>. QED
  BY <1>6, <1>13, <1>14, <1>15, <1>16 DEF IInv

\* An import has been dealt with.
LEMMA ImportHandled ==
  ASSUME NEW c, NEW i, program[c.file][i].kind = "import",
         \/ /\ program[c.file][i].name[1] \in Range(c.paths)
            /\ \E e \in emitted : e.file = program[c.file][i].name[1]
            /\ \E j \in DOMAIN c.imports : CompleteView(c.imports[j], program[c.file][i].name[1])
         \/ Skipped(c)
  PROVE  Handled(c, i)
BY DEF Handled, Variables, Constants, Defining

\* An import that fails keeps the invariant: there is a message.
LEMMA ImportFailedKeeps ==
  ASSUME IInv, ImportFailed
  PROVE  IInv'
<1>. DEFINE importer == Importer
<1>. SUFFICES ASSUME NEW c, c = [importer EXCEPT !.messages = TRUE]
              PROVE  IInv'
  OBVIOUS
<1>1. Len(contexts) > 1 /\ BackTo(c) /\ program' = program /\ emitted' = emitted
  BY DEF ImportFailed, ImportDone, Going
<1>2. /\ Stated(importer) /\ DOMAIN importer = Fields /\ importer.pass = "top level"
      /\ Done(importer, importer.next - 2)
      /\ \A i \in 1 .. importer.next - 1 : i = importer.next - 1 \/ i \in 1 .. importer.next - 2
      /\ program[importer.file][importer.next - 1].kind = "import"
  BY <1>1, ImporterIs
<1>3. /\ DOMAIN c = Fields /\ c.file = importer.file /\ c.next = importer.next
      /\ c.pass = "top level" /\ c.uses = importer.uses /\ c.namespaces = importer.namespaces
      /\ c.imports = importer.imports /\ c.paths = importer.paths
      /\ c.bodies = importer.bodies /\ c.declared = importer.declared
      /\ c.variables = importer.variables /\ c.constants = importer.constants
      /\ c.messages /\ c.messages \in BOOLEAN
  BY <1>2 DEF Fields
<1>. HIDE DEF importer
<1>4. Stated(c)
  <2>1. Typed(c)
    BY <1>2, <1>3 DEF Stated, Typed
  <2>2. Tables(c)
    BY <1>2, <1>3 DEF Stated, Tables
  <2>3. Uses(c)
    BY <1>2, <1>3 DEF Stated, Uses
  <2>4. Stages(c)
    BY <1>2, <1>3 DEF Stated, Stages
  <2>. QED
    BY <2>1, <2>2, <2>3, <2>4 DEF Stated
<1>5. Done(c, c.next - 1)
  <2>1. Keeps(importer, c)
    BY <1>2, <1>3 DEF Keeps, Skipped, Read
  <2>2. ASSUME NEW i \in 1 .. importer.next - 2
        PROVE  Handled(c, i)
    BY <1>2, <2>1, HandledStays DEF Done
  <2>3. Skipped(c)
    BY <1>3 DEF Skipped
  <2>4. Handled(c, importer.next - 1)
    BY <1>2, <1>3, <2>3, ImportHandled
  <2>. QED
    BY <1>2, <1>3, <2>2, <2>4 DEF Done
<1>6. Done(c, c.next - 1)'
  BY <1>1, <1>5, DoneStays
<1>. QED
  BY <1>1, <1>2, <1>3, <1>4, <1>6, PopKeeps DEF importer

\* An import that succeeds keeps the invariant: its importer knows all that it knows.
LEMMA ImportSucceededKeeps ==
  ASSUME IInv, ImportSucceeded
  PROVE  IInv'
<1>. DEFINE importer == Importer
<1>. SUFFICES ASSUME NEW view, view = View(context), NEW file, file = context.file,
                     NEW c,
                     c = [importer EXCEPT !.imports = Append(@, view), !.paths = Append(@, file)]
              PROVE  IInv'
  OBVIOUS
<1>1. /\ Len(contexts) > 1 /\ BackTo(c) /\ program' = program
      /\ emitted' = emitted \cup {context} /\ context.pass = "parsed"
  BY DEF ImportSucceeded, ImportDone
<1>2. /\ Stated(importer) /\ DOMAIN importer = Fields /\ importer.pass = "top level"
      /\ Done(importer, importer.next - 2)
      /\ \A i \in 1 .. importer.next - 1 : i = importer.next - 1 \/ i \in 1 .. importer.next - 2
      /\ program[importer.file][importer.next - 1].kind = "import"
      /\ program[importer.file][importer.next - 1].name[1] = file
      /\ file \in ImportsOf(importer.file)
  BY <1>1, ImporterIs
<1>3. /\ DOMAIN c = Fields /\ c.file = importer.file /\ c.next = importer.next
      /\ c.pass = importer.pass /\ c.uses = importer.uses /\ c.namespaces = importer.namespaces
      /\ c.imports = Append(importer.imports, view) /\ c.paths = Append(importer.paths, file)
      /\ c.bodies = importer.bodies /\ c.declared = importer.declared
      /\ c.variables = importer.variables /\ c.constants = importer.constants
      /\ c.messages = importer.messages
  BY <1>2 DEF Fields
<1>4. SoundView(view, {file} \cup Reachable(file)) /\ CompleteView(view, file)
  BY <1>1, ViewIs
<1>5. Stated(context) /\ Done(context, context.next - 1)
  BY ContextIs
<1>. HIDE DEF importer
<1>6. Sequence(importer.imports) /\ Sequence(importer.paths)
  BY <1>2 DEF Stated, Typed
<1>7. /\ Sequence(c.imports) /\ Sequence(c.paths)
      /\ \A j \in DOMAIN importer.imports :
               j \in DOMAIN c.imports /\ c.imports[j] = importer.imports[j]
      /\ \A j \in DOMAIN c.imports : c.imports[j] = view \/ j \in DOMAIN importer.imports
      /\ \E j \in DOMAIN c.imports : c.imports[j] = view
      /\ Range(c.paths) = Range(importer.paths) \cup {file}
  <2>. DEFINE imports == importer.imports
              l == Len(imports)
  <2>1. /\ Sequence(Append(imports, view))
        /\ \A j \in 1 .. l : Append(imports, view)[j] = imports[j]
        /\ Append(imports, view)[l + 1] = view
        /\ l \in Nat /\ DOMAIN imports = 1 .. l /\ DOMAIN Append(imports, view) = 1 .. l + 1
    BY <1>6, Appended
  <2>2. Sequence(Append(importer.paths, file))
    BY <1>6, Appended
  <2>3. Range(Append(importer.paths, file)) = Range(importer.paths) \cup {file}
    BY <1>6, RangeAppended
  <2>. HIDE DEF l
  <2>4. /\ l + 1 \in 1 .. l + 1 /\ \A j \in 1 .. l : j \in 1 .. l + 1
        /\ \A j \in 1 .. l + 1 : j = l + 1 \/ j \in 1 .. l
    BY <2>1
  <2>. QED
    BY <1>3, <2>1, <2>2, <2>3, <2>4
<1>8. Stated(c)
  <2>1. Typed(c)
    BY <1>2, <1>3, <1>7 DEF Stated, Typed
  <2>2. Tables(c)
    <3>1. {file} \cup Reachable(file) \subseteq Reachable(importer.file)
      <4>1. file \in ImportsOf(importer.file)
        BY <1>2
      <4>. QED
        BY <4>1, ReachableIs
    <3>2. SoundView(view, Reachable(importer.file))
      BY <1>4, <3>1 DEF SoundView, Sound
    <3>3. /\ Sound(importer.variables, Variables, {importer.file})
          /\ Sound(importer.constants, Constants, {importer.file})
          /\ \A i \in DOMAIN importer.imports :
               SoundView(importer.imports[i], Reachable(importer.file))
          /\ \A d \in importer.declared : d.definition.file = importer.file /\ Symbol(d)
      BY <1>2 DEF Stated, Tables
    <3>4. \A i \in DOMAIN c.imports : SoundView(c.imports[i], Reachable(c.file))
      BY <1>3, <1>7, <3>2, <3>3
    <3>. QED
      BY <1>3, <3>3, <3>4 DEF Tables
  <2>3. Uses(c)
    BY <1>2, <1>3 DEF Stated, Uses
  <2>4. Stages(c)
    BY <1>2, <1>3 DEF Stated, Stages
  <2>. QED
    BY <2>1, <2>2, <2>3, <2>4 DEF Stated
<1>9. Keeps(importer, c)
  BY <1>3, <1>7 DEF Keeps, Skipped, Read
<1>10. \A i \in 1 .. importer.next - 2 : Handled(c, i)
  BY <1>2, <1>9, HandledStays DEF Done
<1>11. emitted \subseteq emitted' /\ \E e \in emitted' : e.file = file
  BY <1>1
<1>12. Done(c, c.next - 1)'
  <2>1. ASSUME NEW i \in 1 .. importer.next - 2
        PROVE  Handled(c, i)'
    <3>1. c.pass # "failed"
      BY <1>2, <1>3
    <3>2. ASSUME NEW d, NEW k, d.pass # "failed", Done(d, k)
          PROVE  \A j \in 1 .. k : Handled(d, j)'
      BY <1>1, <1>11, <3>2, DoneStays DEF Done
    <3>3. Done(c, importer.next - 2)
      BY <1>10 DEF Done
    <3>. QED
      BY <3>1, <3>2, <3>3
  <2>. DEFINE last == importer.next - 1
  <2>2. /\ program'[c.file][last].kind = "import" /\ program'[c.file][last].name[1] = file
    BY <1>1, <1>2, <1>3
  <2>3. \E j \in DOMAIN c.imports : CompleteView(c.imports[j], file)'
    <3>1. \A d, f : CompleteView(d, f) => CompleteView(d, f)'
      BY <1>1, TextsStay DEF CompleteView, Complete
    <3>. QED
      BY <1>4, <1>7, <3>1
  <2>. HIDE DEF last
  <2>4. \A i : i = last => Handled(c, i)'
    BY <1>7, <1>11, <2>2, <2>3 DEF Handled, Variables, Constants, Defining
  <2>5. \A i \in 1 .. c.next - 1 : i = last \/ i \in 1 .. importer.next - 2
    BY <1>2, <1>3 DEF last
  <2>. QED
    BY <2>1, <2>4, <2>5 DEF Done
<1>13. \A e \in emitted' \ emitted : Stated(e) /\ e.pass = "parsed" /\ Done(e, e.next - 1)
  BY <1>1, <1>5
<1>. QED
  BY <1>1, <1>3, <1>8, <1>11, <1>12, <1>13, PopKeeps DEF importer

-----------------------------------------------------------------------------
(* The invariant holds. *)

\* What is built is whole.
LEMMA BuildKeeps ==
  ASSUME IInv, Build
  PROVE  IInv'
<1>1. contexts' = contexts /\ program' = program
  BY DEF Build
<1>2. emitted' = emitted \/ (emitted' = emitted \cup {context} /\ context.pass = "parsed")
  BY DEF Build
<1>3. /\ \A c : Stated(c) => Stated(c)'
      /\ \A c, n : Done(c, n) => Done(c, n)'
  <2>1. emitted \subseteq emitted'
    BY <1>2
  <2>. QED
    BY <1>1, <2>1, StatedStays, DoneStays
<1>4. \A d, f : Waits(d, f) => Waits(d, f)'
  BY <1>1 DEF Waits
<1>5. \A e \in emitted' : Stated(e) /\ e.pass = "parsed" /\ Done(e, e.next - 1)
  BY <1>2, ContextIs DEF IInv
<1>6. \A e \in emitted' : Stated(e)' /\ e.pass = "parsed" /\ Done(e, e.next - 1)'
  BY <1>3, <1>5
<1>7. context' = context
  BY <1>1 DEF context
<1>. QED
  BY <1>1, <1>3, <1>4, <1>6, <1>7 DEF IInv

\* At first.
LEMMA InitInvariant ==
  ASSUME Init
  PROVE  IInv
<1>. DEFINE c == ParseContext(Main)
<1>1. /\ program \in Programs /\ contexts = <<c>> /\ emitted = {}
      /\ Main \in DOMAIN program
  BY ProgramsAssumption DEF Init
<1>2. Stated(c) /\ Done(c, c.next - 1)
  BY <1>1, ParseContextIs
<1>. HIDE DEF c
<1>3. /\ Sequence(contexts) /\ contexts # <<>> /\ Len(contexts) = 1 /\ contexts[1] = c
      /\ context = c
  <2>1. <<c>> \in Seq({c}) /\ <<c>> # <<>> /\ Len(<<c>>) = 1 /\ <<c>>[1] = c
    OBVIOUS
  <2>. QED
    BY <1>1, <2>1 DEF Sequence, context, Last
<1>4. (\A k \in 1 .. Len(contexts) : k = 1) /\ Len(contexts) - 1 = 0
  BY <1>3
<1>5. 1 .. Len(contexts) - 1 = {}
  BY <1>4
<1>. QED
  BY <1>1, <1>2, <1>3, <1>4, <1>5 DEF IInv

\* What is known of the parses always holds.
LEMMA Invariance == Spec => []IInv
<1>1. Init => IInv
  BY InitInvariant
<1>2. IInv /\ [Next]_vars => IInv'
  <2>. SUFFICES ASSUME IInv, [Next]_vars
                PROVE  IInv'
    OBVIOUS
  <2>1. CASE Composite
    BY <2>1, CompositeKeeps
  <2>2. CASE Structure
    BY <2>2, StructureKeeps
  <2>3. CASE Function
    BY <2>3, FunctionKeeps
  <2>4. CASE Global
    BY <2>4, GlobalKeeps
  <2>5. CASE Namespace
    BY <2>5, NamespaceKeeps
  <2>6. CASE End
    BY <2>6, EndKeeps
  <2>7. CASE Visibility
    BY <2>7, VisibilityKeeps
  <2>8. CASE Import
    BY <2>8, ImportKeeps
  <2>9. CASE ImportFailed
    BY <2>9, ImportFailedKeeps
  <2>10. CASE ImportSucceeded
    BY <2>10, ImportSucceededKeeps
  <2>11. CASE EndOfTopLevel
    BY <2>11, EndOfTopLevelKeeps
  <2>12. CASE ParseFunctionBody
    BY <2>12, ParseFunctionBodyKeeps
  <2>13. CASE EndOfBodies
    BY <2>13, EndOfBodiesKeeps
  <2>14. CASE Build
    BY <2>14, BuildKeeps
  <2>15. CASE UNCHANGED vars
    BY <2>15, SameKeeps DEF vars
  <2>. QED
    BY <2>1, <2>2, <2>3, <2>4, <2>5, <2>6, <2>7, <2>8, <2>9, <2>10, <2>11, <2>12, <2>13, <2>14,
       <2>15 DEF Next
<1>. QED
  BY <1>1, <1>2, PTL DEF Spec

-----------------------------------------------------------------------------
(* The properties hold. *)

\* What has been emitted is whole.
LEMMA EmittedIs ==
  ASSUME IInv, NEW c \in emitted
  PROVE  /\ Stated(c) /\ c.pass = "parsed" /\ c.file \in DOMAIN program
         /\ \A i \in 1 .. Len(program[c.file]) : Handled(c, i)
         /\ ~c.messages /\ c.bodies = <<>> /\ ~Skipped(c)
<1>1. /\ Stated(c) /\ c.pass = "parsed" /\ Done(c, c.next - 1)
      /\ program \in Programs
  BY DEF IInv
<1>2. ~c.messages /\ c.bodies = <<>>
  BY <1>1 DEF Stated, Stages
<1>3. c.file \in DOMAIN program
  BY <1>1 DEF Stated, Typed
<1>4. \A i \in 1 .. Len(program[c.file]) : Handled(c, i)
  BY <1>1, AllHandled
<1>5. ~Skipped(c)
  BY <1>1 DEF Skipped
<1>. QED
  BY <1>1, <1>2, <1>3, <1>4, <1>5

\* What is imported has been emitted, and its path is kept.
LEMMA EmittedImports ==
  ASSUME IInv, NEW c \in emitted, NEW f \in ImportsOf(c.file)
  PROVE  f \in Range(c.paths) /\ \E e \in emitted : e.file = f
<1>1. /\ c.file \in DOMAIN program /\ program \in Programs /\ ~Skipped(c)
      /\ \A i \in 1 .. Len(program[c.file]) : Handled(c, i)
  BY EmittedIs DEF IInv
<1>2. PICK i \in 1 .. Len(program[c.file]) :
        program[c.file][i].kind = "import" /\ program[c.file][i].name[1] = f
  BY <1>1, ImportsAre
<1>3. Handled(c, i)
  BY <1>1
<1>. QED
  BY <1>1, <1>2, <1>3 DEF Handled

\* What is defined has been declared.
LEMMA EmittedDefinitions ==
  ASSUME IInv, NEW c \in emitted, NEW d \in Definitions(c.file)
  PROVE  \E e \in c.declared : e.definition = d
<1>1. /\ c.file \in DOMAIN program /\ program \in Programs
      /\ \A i \in 1 .. Len(program[c.file]) : Handled(c, i)
  BY EmittedIs DEF IInv
<1>2. PICK i \in 1 .. Len(program[c.file]) :
        program[c.file][i].kind \in Defining /\ d = The(c.file, i)
  BY <1>1, DefinitionsAre
<1>3. Handled(c, i)
  BY <1>1
<1>. QED
  BY <1>2, <1>3 DEF Handled

\* In any program, C sources are written only for files that have been read to their ends,
\* after those of all files that they import, directly or not.
THEOREM WholeFilesAreEmitted == Spec => []OnlyWholeFilesAreEmitted
<1>1. IInv => OnlyWholeFilesAreEmitted
  <2>. SUFFICES ASSUME IInv, NEW c \in emitted
                PROVE  /\ Definitions(c.file) \subseteq {d.definition : d \in c.declared}
                       /\ \A i \in DOMAIN program[c.file] :
                            program[c.file][i].kind = "function" =>
                              \A name \in Range(program[c.file][i].uses) :
                                \E use \in c.uses : use.name = name
                       /\ \A use \in c.uses : use.definition # Undefined
                       /\ Reachable(c.file) \subseteq {other.file : other \in emitted}
    BY DEF OnlyWholeFilesAreEmitted
  <2>1. Definitions(c.file) \subseteq {d.definition : d \in c.declared}
    BY EmittedDefinitions
  <2>2. ASSUME NEW i \in DOMAIN program[c.file], program[c.file][i].kind = "function"
        PROVE  \A name \in Range(program[c.file][i].uses) : \E use \in c.uses : use.name = name
    <3>1. i \in 1 .. Len(program[c.file])
      <4>1. program[c.file] \in Seq(Items)
        BY EmittedIs, Texts DEF IInv
      <4>. QED
        BY <4>1
    <3>2. Read(c, program[c.file][i].uses)
      BY <2>2, <3>1, EmittedIs DEF Handled
    <3>3. DOMAIN c.bodies = {} /\ ~c.messages
      BY EmittedIs
    <3>. QED
      BY <3>2, <3>3 DEF Read
  <2>3. \A use \in c.uses : use.definition # Undefined
    BY EmittedIs DEF Stated, Uses
  <2>4. Reachable(c.file) \subseteq {other.file : other \in emitted}
    <3>. DEFINE files == UNION {ImportsOf(f) : f \in DOMAIN program}
                S == {f \in files : \E e \in emitted : e.file = f}
    <3>1. \A e \in emitted : ImportsOf(e.file) \subseteq S
      <4>1. \A f : ImportsOf(f) \subseteq files
        BY NoDefinitions
      <4>. QED
        BY <4>1, EmittedImports
    <3>2. ImportsOf(c.file) \cup UNION {ImportsOf(f) : f \in S} \subseteq S
      BY <3>1
    <3>3. Reachable(c.file) \subseteq S
      BY <3>2 DEF Reachable
    <3>. QED
      BY <3>3
  <2>. QED
    BY <2>1, <2>2, <2>3, <2>4
<1>. QED
  BY <1>1, Invariance, PTL

\* A name of one identifier is printed alone.
LEMMA SymbolIs ==
  ASSUME NEW d, Symbol(d), d.definition.kind = "global" => Len(d.definition.name) = 1
  PROVE  d.symbol = d.definition.name
<1>1. CASE d.definition.kind # "global"
  BY <1>1 DEF Symbol
<1>2. CASE d.definition.kind = "global"
  <2>. DEFINE symbol == d.symbol
              name == d.definition.name
  <2>1. PICK namespace \in Names : name = namespace \o symbol /\ symbol \in Names /\ symbol # <<>>
    BY <1>2 DEF Symbol
  <2>2. Len(name) = 1
    BY <1>2
  <2>. HIDE DEF symbol, name
  <2>3. namespace \in Seq(STRING) /\ symbol \in Seq(STRING)
    BY <2>1 DEF Names
  <2>4. Len(namespace) + Len(symbol) = 1 /\ Len(namespace) \in Nat /\ Len(symbol) \in Nat
    BY <2>1, <2>2, <2>3, ConcatProperties
  <2>5. Len(symbol) # 0
    BY <2>1, <2>3, EmptySeq
  <2>6. namespace = <<>>
    BY <2>3, <2>4, <2>5, EmptySeq
  <2>7. name = symbol
    BY <2>1, <2>3, <2>6
  <2>. QED
    BY <2>7 DEF name, symbol
<1>. QED
  BY <1>1, <1>2

\* In any program, a name means what it can mean, is unknown only if it can mean nothing, and
\* is printed for C as what C has been told of it.
THEOREM UsesDoReachTheirDefinitions == Spec => []UsesReachTheirDefinitions
<1>1. IInv => UsesReachTheirDefinitions
  <2>. SUFFICES ASSUME IInv, NEW c \in emitted \cup Range(contexts), NEW use \in c.uses
                PROVE  /\ use.definition = Undefined => Candidates(c.file, use) = {}
                       /\ Cardinality(Candidates(c.file, use)) = 1 =>
                            use.definition \in Candidates(c.file, use)
                       /\ c \in emitted /\ Promised(c, use.definition) =>
                            \E d \in Visible(c) : /\ d.symbol = use.definition.name
                                                  /\ d.definition = use.definition
    BY DEF UsesReachTheirDefinitions
  <2>1. Stated(c)
    <3>1. DOMAIN contexts = 1 .. Len(contexts)
      BY Taken DEF IInv
    <3>. QED
      BY <3>1 DEF IInv, Range
  <2>2. Right(c.file, use)
    BY <2>1 DEF Stated, Uses
  <2>3. use.definition = Undefined => Candidates(c.file, use) = {}
    BY <2>2 DEF Right
  <2>4. Cardinality(Candidates(c.file, use)) = 1 => use.definition \in Candidates(c.file, use)
    <3>1. CASE use.definition = Undefined
      <4>1. Candidates(c.file, use) = {} /\ Cardinality({}) = 0
        BY <2>3, <3>1, FS_EmptySet
      <4>. QED
        BY <4>1
    <3>2. CASE use.definition # Undefined
      BY <2>2, <3>2 DEF Right
    <3>. QED
      BY <3>1, <3>2
  <2>5. ASSUME c \in emitted, Promised(c, use.definition)
        PROVE  \E d \in Visible(c) : d.symbol = use.definition.name /\ d.definition = use.definition
    <3>. DEFINE q == use.definition
    <3>1. /\ q.kind \in {"function", "enumeration", "global"}
          /\ q.kind = "global" => Len(q.name) = 1
          /\ \/ q.file = c.file
             \/ /\ q.file \in ImportsOf(c.file)
                /\ \E other \in emitted : \E d \in other.declared :
                     d.definition = q /\ d.source = "external"
      BY <2>5 DEF Promised
    <3>2. q \in Definitions(q.file)
      <4>1. q # Undefined
        <5>1. Undefined.kind = "undefined"
          BY DEF Undefined, Definition
        <5>2. q.kind # "undefined"
          BY <3>1
        <5>. QED
          BY <5>1, <5>2
      <4>2. q \in Candidates(c.file, use)
        BY <2>2, <4>1 DEF Right
      <4>3. q # Definition(c.file, "parameter", use.name)
        BY <3>1 DEF Definition
      <4>4. \E f : q \in Definitions(f)
        BY <4>2, <4>3 DEF Candidates
      <4>. QED
        BY <4>4, NoDefinitions
    <3>. HIDE DEF q
    <3>3. \E d \in Visible(c) : d.definition = q /\ Symbol(d)
      <4>1. CASE q.file = c.file
        <5>1. PICK d \in c.declared : d.definition = q
          BY <2>5, <3>2, <4>1, EmittedDefinitions
        <5>2. Symbol(d)
          BY <2>1 DEF Stated, Tables
        <5>. QED
          BY <5>1, <5>2 DEF Visible
      <4>2. CASE /\ q.file \in ImportsOf(c.file)
                 /\ \E other \in emitted : \E d \in other.declared :
                      d.definition = q /\ d.source = "external"
        <5>1. PICK other \in emitted : \E d \in other.declared :
                d.definition = q /\ d.source = "external"
          BY <4>2
        <5>2. PICK d \in other.declared : d.definition = q /\ d.source = "external"
          BY <5>1
        <5>3. d.definition.file = other.file /\ Symbol(d)
          BY EmittedIs DEF Stated, Tables
        <5>4. other.file \in Range(c.paths)
          BY <2>5, <4>2, <5>2, <5>3, EmittedImports
        <5>. QED
          BY <5>2, <5>3, <5>4 DEF Visible
      <4>. QED
        BY <3>1, <4>1, <4>2
    <3>4. PICK d \in Visible(c) : d.definition = q /\ Symbol(d)
      BY <3>3
    <3>5. d.symbol = q.name
      BY <3>1, <3>4, SymbolIs
    <3>. QED
      BY <3>4, <3>5 DEF q
  <2>. QED
    BY <2>3, <2>4, <2>5
<1>. QED
  BY <1>1, Invariance, PTL
=============================================================================
