----------------------- MODULE AtomicStatements_proof -----------------------
(***************************************************************************)
(* Proofs about AtomicStatements, for bodies of any length and nesting.    *)
(***************************************************************************)
EXTENDS AtomicStatements, FiniteSetTheorems, TLAPS

-----------------------------------------------------------------------------
(* What the steps do to the blocks. *)

\* What can be counted to is a number, and can be counted to later, too.
LEMMA Counting ==
  ASSUME NEW n \in Nat
  PROVE  /\ CountsTo(n) \subseteq CountsTo(n + 1)
         /\ \A d \in CountsTo(n) : {d - 1, d + 1} \subseteq CountsTo(n + 1)
         /\ BlocksTo(n) \subseteq BlocksTo(n + 1)
<1>1. /\ CountsTo(n) \subseteq CountsTo(n + 1)
      /\ \A d \in CountsTo(n) : {d - 1, d + 1} \subseteq CountsTo(n + 1)
  BY DEF CountsTo
<1>2. SUBSET CountsTo(n) \subseteq SUBSET CountsTo(n + 1) /\ 0 .. n \subseteq 0 .. (n + 1)
  BY <1>1
<1>. QED
  BY <1>1, <1>2 DEF BlocksTo

\* A child is added to the innermost block.
LEMMA ChildAdded ==
  ASSUME NEW n \in Nat, NEW bs \in Seq(BlocksTo(n)), Len(bs) >= 1,
         NEW name \in NodeNames
  PROVE  LET cs == WithChild(bs, name) IN
         /\ cs \in Seq(BlocksTo(n))
         /\ Len(cs) = Len(bs)
         /\ \A i \in 1 .. Len(bs) :
              /\ cs[i].kind = bs[i].kind /\ cs[i].tx = bs[i].tx
              /\ cs[i].before = bs[i].before /\ cs[i].body = bs[i].body
              /\ cs[i].exits = bs[i].exits
         /\ cs[Len(cs)].last = name
<1>. DEFINE cs == WithChild(bs, name)
<1>. DEFINE b == [bs[Len(bs)] EXCEPT !.last = name]
<1>1. bs[Len(bs)] \in BlocksTo(n)
  OBVIOUS
<1>2. /\ b \in BlocksTo(n) /\ b.last = name
      /\ b.kind = bs[Len(bs)].kind /\ b.tx = bs[Len(bs)].tx
      /\ b.before = bs[Len(bs)].before /\ b.body = bs[Len(bs)].body
      /\ b.exits = bs[Len(bs)].exits
  BY <1>1 DEF BlocksTo
<1>3. cs = [bs EXCEPT ![Len(bs)] = b]
  BY DEF WithChild
<1>. HIDE DEF b, cs
<1>4. /\ cs \in Seq(BlocksTo(n)) /\ Len(cs) = Len(bs)
      /\ \A i \in 1 .. Len(bs) : cs[i] = IF i = Len(bs) THEN b ELSE bs[i]
  BY <1>2, <1>3
<1>. QED
  BY <1>2, <1>4 DEF cs

\* A block is put on top.
LEMMA BlockAdded ==
  ASSUME NEW S, NEW bs \in Seq(S), NEW b \in S, NEW cs, cs = Append(bs, b)
  PROVE  /\ cs \in Seq(S)
         /\ Len(cs) = Len(bs) + 1
         /\ \A i \in 1 .. Len(bs) : cs[i] = bs[i]
         /\ cs[Len(bs) + 1] = b
OBVIOUS

\* The top block is taken away.
LEMMA BlockTaken ==
  ASSUME NEW S, NEW bs \in Seq(S), Len(bs) > 1, NEW cs, cs = Below(bs)
  PROVE  /\ cs \in Seq(S)
         /\ Len(cs) = Len(bs) - 1
         /\ \A i \in 1 .. Len(bs) - 1 : cs[i] = bs[i]
BY DEF Below

\* The top block becomes a child of the one below.
LEMMA ChildOfParent ==
  ASSUME NEW n \in Nat, NEW bs \in Seq(BlocksTo(n)), Len(bs) > 1
  PROVE  LET cs == WithChild(Below(bs), "other") IN
         /\ cs \in Seq(BlocksTo(n))
         /\ Len(cs) = Len(bs) - 1
         /\ \A i \in 1 .. Len(bs) - 1 :
              /\ cs[i].kind = bs[i].kind /\ cs[i].tx = bs[i].tx
              /\ cs[i].before = bs[i].before /\ cs[i].body = bs[i].body
              /\ cs[i].exits = bs[i].exits
         /\ cs[Len(bs) - 1].last = "other"
<1>. DEFINE below == Below(bs)  cs == WithChild(below, "other")
<1>1. /\ below \in Seq(BlocksTo(n)) /\ Len(below) = Len(bs) - 1
      /\ \A i \in 1 .. Len(bs) - 1 : below[i] = bs[i]
  BY BlockTaken
<1>2. Len(below) >= 1 /\ "other" \in NodeNames
  BY <1>1 DEF NodeNames
<1>. HIDE DEF below
<1>3. /\ cs \in Seq(BlocksTo(n))
      /\ Len(cs) = Len(below)
      /\ \A i \in 1 .. Len(below) :
           /\ cs[i].kind = below[i].kind /\ cs[i].tx = below[i].tx
           /\ cs[i].before = below[i].before /\ cs[i].body = below[i].body
           /\ cs[i].exits = below[i].exits
      /\ cs[Len(cs)].last = "other"
  BY <1>1, <1>2, ChildAdded
<1>. HIDE DEF cs
<1>. QED
  BY <1>1, <1>3 DEF cs, below

-----------------------------------------------------------------------------
(* Counting blocks. *)

\* Both counts look at the first blocks only, and at their kinds only.
LEMMA SameKinds ==
  ASSUME NEW bs, NEW cs, NEW n \in Nat, \A i \in 1 .. n : cs[i].kind = bs[i].kind
  PROVE  /\ Scoped(cs, n) = Scoped(bs, n)
         /\ OpenAt(cs, n) = OpenAt(bs, n) /\ Depth(cs, n) = Depth(bs, n)
<1>1. Scoped(cs, n) = Scoped(bs, n)
  BY DEF Scoped
<1>2. OpenAt(cs, n) = OpenAt(bs, n)
  BY DEF OpenAt
<1>. QED
  BY <1>1, <1>2 DEF Depth

\* Both are sets of numbers up to n.
LEMMA Finite ==
  ASSUME NEW bs, NEW n \in Nat
  PROVE  /\ IsFiniteSet(Scoped(bs, n)) /\ Cardinality(Scoped(bs, n)) \in Nat
         /\ IsFiniteSet(OpenAt(bs, n)) /\ Depth(bs, n) \in Nat
<1>1. IsFiniteSet(1 .. n)
  BY FS_Interval
<1>2. Scoped(bs, n) \in SUBSET (1 .. n) /\ OpenAt(bs, n) \in SUBSET (1 .. n)
  BY DEF Scoped, OpenAt
<1>3. IsFiniteSet(Scoped(bs, n)) /\ IsFiniteSet(OpenAt(bs, n))
  BY <1>1, <1>2, FS_Subset
<1>. QED
  BY <1>3, FS_CardinalityType DEF Depth

\* What one more block adds to the scopes.
LEMMA OneMoreScoped ==
  ASSUME NEW bs, NEW n \in Nat
  PROVE  Cardinality(Scoped(bs, n + 1)) =
           IF bs[n + 1].kind \in {"debug", "closure"}
             THEN Cardinality(Scoped(bs, n)) + 1 ELSE Cardinality(Scoped(bs, n))
<1>1. n + 1 \notin Scoped(bs, n)
  BY DEF Scoped
<1>2. Scoped(bs, n + 1) = IF bs[n + 1].kind \in {"debug", "closure"}
                            THEN Scoped(bs, n) \cup {n + 1} ELSE Scoped(bs, n)
  BY DEF Scoped
<1>. QED
  BY <1>1, <1>2, Finite, FS_AddElement

\* What one more block adds to the open transactions.
LEMMA OneMoreOpen ==
  ASSUME NEW bs, NEW n \in Nat
  PROVE  Depth(bs, n + 1) =
           CASE bs[n + 1].kind = "closure" -> 0
             [] bs[n + 1].kind = "atomic" -> Depth(bs, n) + 1
             [] bs[n + 1].kind \notin {"closure", "atomic"} -> Depth(bs, n)
<1>1. CASE bs[n + 1].kind = "closure"
  <2>1. OpenAt(bs, n + 1) = {}
    BY <1>1 DEF OpenAt
  <2>. QED
    BY <1>1, <2>1, FS_EmptySet DEF Depth
<1>2. CASE bs[n + 1].kind = "atomic"
  <2>1. OpenAt(bs, n + 1) = OpenAt(bs, n) \cup {n + 1}
    BY <1>2 DEF OpenAt
  <2>2. n + 1 \notin OpenAt(bs, n)
    BY DEF OpenAt
  <2>. QED
    BY <1>2, <2>1, <2>2, Finite, FS_AddElement DEF Depth
<1>3. CASE bs[n + 1].kind \notin {"closure", "atomic"}
  <2>1. OpenAt(bs, n + 1) = OpenAt(bs, n)
    BY <1>3 DEF OpenAt
  <2>. QED
    BY <1>3, <2>1 DEF Depth
<1>. QED
  BY <1>1, <1>2, <1>3

\* The atomic statements open at the current point.
LEMMA OpenIsOpenAt ==
  ASSUME Len(blocks) \in Nat
  PROVE  Open = OpenAt(blocks, Len(blocks))
BY DEF Open, InFunction, OpenAt

-----------------------------------------------------------------------------
(* What a step can rely on. *)

\* What is counted stays in its range, one more step allowing for one more.
LEMMA Later ==
  ASSUME Typed, Parse
  PROVE  /\ length' \in 0 .. MaxLength /\ length' = length + 1
         /\ Len(blocks) \in Nat /\ Len(blocks) >= 1
         /\ blocks \in Seq(BlocksTo(length')) /\ Current \in BlocksTo(length')
         /\ depths \in SUBSET CountsTo(length')
         /\ {d - 1 : d \in depths} \in SUBSET CountsTo(length')
         /\ {d + 1 : d \in depths} \in SUBSET CountsTo(length')
         /\ returned \in SUBSET CountsTo(length')
         /\ 0 \in CountsTo(length')
         /\ atomics \in 0 .. length' /\ atomics + 1 \in 0 .. length'
         /\ length' \in Nat /\ length \in Nat /\ atomics \in Nat
         /\ depths \subseteq Int
<1>1. length \in Nat /\ MaxLength \in Nat /\ MaxNesting \in Nat
  BY BoundsAssumption DEF Typed
<1>2. length' \in 0 .. MaxLength /\ length' = length + 1 /\ length' \in Nat
  BY <1>1 DEF Parse
<1>3. /\ CountsTo(length) \subseteq CountsTo(length')
      /\ \A d \in CountsTo(length) : {d - 1, d + 1} \subseteq CountsTo(length')
      /\ BlocksTo(length) \subseteq BlocksTo(length')
  BY <1>1, <1>2, Counting
<1>4. blocks \in Seq(BlocksTo(length')) /\ Len(blocks) \in Nat /\ Len(blocks) >= 1
  BY <1>1, <1>3 DEF Typed
<1>5. Current \in BlocksTo(length')
  BY <1>4 DEF Current, Top
<1>6. /\ depths \in SUBSET CountsTo(length')
      /\ {d - 1 : d \in depths} \in SUBSET CountsTo(length')
      /\ {d + 1 : d \in depths} \in SUBSET CountsTo(length')
      /\ returned \in SUBSET CountsTo(length')
  BY <1>3 DEF Typed
<1>7. 0 \in CountsTo(length') /\ depths \subseteq Int
  BY <1>2, <1>6 DEF CountsTo
<1>8. atomics \in 0 .. length' /\ atomics + 1 \in 0 .. length' /\ atomics \in Nat
  BY <1>1, <1>2 DEF Typed
<1>. QED
  BY <1>1, <1>2, <1>4, <1>5, <1>6, <1>7, <1>8

\* A name is counted in the function's scope and is current there only.
LEMMA Naming ==
  ASSUME ScopesFollow, Len(blocks) \in Nat, atomics \in Nat
  PROVE  /\ Len(scopes) \in Nat /\ Len(scopes) >= 1
         /\ LET named == scopedName(scopes)
            IN  /\ named \in Seq(Scopes)
                /\ Len(named) = Len(scopes)
                /\ named[1].named /\ named[1].tx = atomics + 1
                /\ \A i \in 2 .. Len(scopes) : named[i] = scopes[i]
                /\ named[Namer(named)].tx = atomics + 1
         /\ currentScopedName(scopes) = IF InDebugOrClosure THEN 0 ELSE atomics
<1>. DEFINE N == Len(blocks)
            first == [scopes[1] EXCEPT !.tx = scopes[1].tx + 1]
            named == scopedName(scopes)
<1>1. /\ IsFiniteSet(Scoped(blocks, N)) /\ Cardinality(Scoped(blocks, N)) \in Nat
      /\ Len(scopes) = 1 + Cardinality(Scoped(blocks, N))
      /\ Len(scopes) \in Nat /\ Len(scopes) >= 1
  BY Finite DEF ScopesFollow
<1>2. Len(scopes) = 1 <=> ~InDebugOrClosure
  <2>1. Cardinality(Scoped(blocks, N)) = 0 <=> Scoped(blocks, N) = {}
    BY <1>1, FS_EmptySet
  <2>2. Scoped(blocks, N) = {} <=> ~InDebugOrClosure
    BY DEF Scoped, InDebugOrClosure
  <2>. QED
    BY <1>1, <2>1, <2>2
<1>3. /\ scopes \in Seq(Scopes)
      /\ scopes[1].named /\ scopes[1].tx = atomics
      /\ \A i \in 2 .. Len(scopes) : ~scopes[i].named /\ scopes[i].tx = 0
  BY DEF ScopesFollow
<1>4. ASSUME NEW s \in Seq(Scopes), Len(s) >= 1, s[1].named,
             \A i \in 2 .. Len(s) : ~s[i].named
      PROVE  Namer(s) = 1
  <2>. DEFINE P(i) == s[i].named /\ \A j \in i + 1 .. Len(s) : ~s[j].named
  <2>1. 1 \in 1 .. Len(s) /\ P(1)
    BY <1>4
  <2>2. \A i \in 1 .. Len(s) : P(i) => i = 1
    BY <1>4
  <2>3. (CHOOSE i \in 1 .. Len(s) : P(i)) = 1
    <3>. HIDE DEF P
    <3>. QED
      BY <2>1, <2>2
  <2>. QED
    BY <2>3 DEF Namer
<1>5. Namer(scopes) = 1
  BY <1>1, <1>3, <1>4
<1>6. named = [scopes EXCEPT ![1] = first]
  BY <1>5 DEF scopedName
<1>7. first \in Scopes /\ first.named /\ first.tx = atomics + 1
  <2>1. scopes[1] \in Scopes
    BY <1>1, <1>3
  <2>2. first \in Scopes /\ first.named = scopes[1].named /\ first.tx = scopes[1].tx + 1
    BY <2>1 DEF Scopes
  <2>. QED
    BY <1>3, <2>2
<1>8. /\ named \in Seq(Scopes) /\ Len(named) = Len(scopes)
      /\ named[1] = first
      /\ \A i \in 2 .. Len(scopes) : named[i] = scopes[i]
  <2>. HIDE DEF first, named
  <2>. QED
    BY <1>1, <1>3, <1>6, <1>7
<1>9. Namer(named) = 1
  <2>. HIDE DEF first, named
  <2>. QED
    BY <1>1, <1>3, <1>4, <1>7, <1>8
<1>10. currentScopedName(scopes) = IF InDebugOrClosure THEN 0 ELSE atomics
  BY <1>1, <1>2, <1>3 DEF currentScopedName, Top
<1>. QED
  <2>. HIDE DEF first
  <2>. QED
    BY <1>1, <1>7, <1>8, <1>9, <1>10

-----------------------------------------------------------------------------
(* The chain of scopes and the names, over the ways the blocks change. *)

\* A block that takes the place of another: an else begins a second part.
Replaces(c, b) ==
  /\ c.tx = b.tx
  /\ c.kind = "function" <=> b.kind = "function"
  /\ c.kind \in {"debug", "closure"} <=> b.kind \in {"debug", "closure"}
  /\ Named(c) <=> Named(b)

LEMMA StructureKept ==
  ASSUME FunctionFirst, ScopesFollow, NamesGrow, Len(blocks) \in Nat,
         Len(blocks') = Len(blocks),
         \A i \in 1 .. Len(blocks) : Replaces(blocks'[i], blocks[i]),
         UNCHANGED <<scopes, atomics>>
  PROVE  (FunctionFirst /\ ScopesFollow /\ NamesGrow)'
<1>1. FunctionFirst'
  BY DEF FunctionFirst, Replaces
<1>2. Scoped(blocks', Len(blocks')) = Scoped(blocks, Len(blocks))
  BY DEF Scoped, Replaces
<1>3. ScopesFollow'
  BY <1>2 DEF ScopesFollow
<1>4. NamesGrow'
  BY DEF NamesGrow, Replaces
<1>. QED
  BY <1>1, <1>3, <1>4

\* A statement without a scope of its own, an atomic one with the next name.
LEMMA StructureEntered ==
  ASSUME FunctionFirst, ScopesFollow, NamesGrow, Len(blocks) \in Nat, Len(blocks) >= 1,
         atomics \in Nat,
         NEW k \in Kinds, k # "function", k # "atomicElse",
         Len(blocks') = Len(blocks) + 1,
         \A i \in 1 .. Len(blocks) : blocks'[i] = blocks[i],
         blocks'[Len(blocks) + 1].kind = k,
         k = "atomic" => /\ blocks'[Len(blocks) + 1].tx = atomics + 1
                            /\ scopes' = scopedName(scopes) /\ atomics' = atomics + 1,
         k \in {"debug", "closure"} => scopes' = pushScope(scopes) /\ atomics' = atomics,
         k \notin {"atomic", "debug", "closure"} => scopes' = scopes /\ atomics' = atomics
  PROVE  (FunctionFirst /\ ScopesFollow /\ NamesGrow)'
<1>. DEFINE N == Len(blocks)
<1>1. /\ Len(blocks') = N + 1
      /\ \A i \in 1 .. N : blocks'[i] = blocks[i]
      /\ blocks'[N + 1].kind = k
      /\ N \in Nat /\ N >= 1
  OBVIOUS
<1>2. FunctionFirst'
  BY <1>1 DEF FunctionFirst
<1>3. Scoped(blocks', N) = Scoped(blocks, N)
  BY <1>1, SameKinds
<1>4. Cardinality(Scoped(blocks', Len(blocks'))) =
        IF k \in {"debug", "closure"}
          THEN Cardinality(Scoped(blocks, N)) + 1 ELSE Cardinality(Scoped(blocks, N))
  BY <1>1, <1>3, OneMoreScoped
<1>5. Cardinality(Scoped(blocks, N)) \in Nat /\ Len(scopes) \in Nat /\ Len(scopes) >= 1
  BY Finite, Naming
<1>6. ScopesFollow'
  <2>1. CASE k = "atomic"
    <3>1. /\ scopes' \in Seq(Scopes) /\ Len(scopes') = Len(scopes)
          /\ scopes'[1].named /\ scopes'[1].tx = atomics'
          /\ \A i \in 2 .. Len(scopes) : scopes'[i] = scopes[i]
      BY <2>1, Naming
    <3>. QED
      BY <1>4, <2>1, <3>1 DEF ScopesFollow
  <2>2. CASE k \in {"debug", "closure"}
    <3>1. scopes' = Append(scopes, NewScope) /\ atomics' = atomics
      BY <2>2 DEF pushScope
    <3>2. NewScope \in Scopes
      BY DEF NewScope, Scopes
    <3>3. /\ scopes' \in Seq(Scopes)
          /\ Len(scopes') = Len(scopes) + 1
          /\ \A i \in 1 .. Len(scopes) : scopes'[i] = scopes[i]
          /\ scopes'[Len(scopes) + 1] = NewScope
      <4>1. scopes \in Seq(Scopes)
        BY DEF ScopesFollow
      <4>. QED
        BY <3>1, <3>2, <4>1, BlockAdded
    <3>. QED
      BY <1>4, <1>5, <2>2, <3>1, <3>3 DEF ScopesFollow, NewScope
  <2>3. CASE k \notin {"atomic", "debug", "closure"}
    BY <1>4, <2>3 DEF ScopesFollow
  <2>. QED
    BY <2>1, <2>2, <2>3
<1>7. NamesGrow'
  <2>1. \A i \in 1 .. N + 1 : Named(blocks'[i]) =>
          IF i = N + 1 THEN k = "atomic" /\ blocks'[i].tx = atomics'
          ELSE Named(blocks[i]) /\ blocks'[i] = blocks[i] /\ blocks[i].tx \in 1 .. atomics
    <3>1. Named(blocks'[N + 1]) => k = "atomic" /\ blocks'[N + 1].tx = atomics'
      BY <1>1 DEF Named
    <3>. QED
      BY <1>1, <3>1 DEF NamesGrow
  <2>2. atomics' \in {atomics, atomics + 1} /\ (k = "atomic" => atomics' = atomics + 1)
    OBVIOUS
  <2>3. \A i \in 1 .. N + 1 : Named(blocks'[i]) => blocks'[i].tx \in 1 .. atomics'
    BY <2>1, <2>2
  <2>4. ASSUME NEW i \in 1 .. N + 1, NEW j \in i + 1 .. N + 1,
               Named(blocks'[i]), Named(blocks'[j])
        PROVE  blocks'[i].tx < blocks'[j].tx
    <3>1. CASE j = N + 1
      BY <2>1, <2>2, <2>4, <3>1
    <3>2. CASE j # N + 1
      BY <2>1, <2>4, <3>2 DEF NamesGrow
    <3>. QED
      BY <3>1, <3>2
  <2>. QED
    BY <1>1, <2>3, <2>4 DEF NamesGrow
<1>. QED
  BY <1>2, <1>6, <1>7

\* A statement is complete; its scope goes with it.
LEMMA StructureLeft ==
  ASSUME FunctionFirst, ScopesFollow, NamesGrow, Len(blocks) \in Nat, Len(blocks) > 1,
         atomics \in Nat,
         Len(blocks') = Len(blocks) - 1,
         \A i \in 1 .. Len(blocks) - 1 :
           blocks'[i].kind = blocks[i].kind /\ blocks'[i].tx = blocks[i].tx,
         scopes' = IF blocks[Len(blocks)].kind \in {"debug", "closure"}
                     THEN popScope(scopes) ELSE scopes,
         UNCHANGED atomics
  PROVE  (FunctionFirst /\ ScopesFollow /\ NamesGrow)'
<1>. DEFINE N == Len(blocks)
<1>3. /\ Len(blocks') = N - 1 /\ N \in Nat /\ N > 1
      /\ \A i \in 1 .. N - 1 : blocks'[i].kind = blocks[i].kind /\ blocks'[i].tx = blocks[i].tx
  OBVIOUS
<1>4. FunctionFirst'
  BY <1>3 DEF FunctionFirst
<1>5. Cardinality(Scoped(blocks, N)) =
        IF blocks[N].kind \in {"debug", "closure"}
          THEN Cardinality(Scoped(blocks', N - 1)) + 1
          ELSE Cardinality(Scoped(blocks', N - 1))
  <2>1. Scoped(blocks', N - 1) = Scoped(blocks, N - 1)
    BY <1>3, SameKinds
  <2>2. Cardinality(Scoped(blocks, (N - 1) + 1)) =
          IF blocks[(N - 1) + 1].kind \in {"debug", "closure"}
            THEN Cardinality(Scoped(blocks, N - 1)) + 1
            ELSE Cardinality(Scoped(blocks, N - 1))
    BY OneMoreScoped, N - 1 \in Nat
  <2>. QED
    BY <2>1, <2>2, (N - 1) + 1 = N
<1>6. Cardinality(Scoped(blocks', N - 1)) \in Nat /\ Len(scopes) \in Nat /\ Len(scopes) >= 1
  BY Finite, Naming, N - 1 \in Nat
<1>7. ScopesFollow'
  <2>1. CASE blocks[N].kind \in {"debug", "closure"}
    <3>1. Len(scopes) > 1 /\ scopes' = Below(scopes) /\ atomics' = atomics
      BY <1>5, <1>6, <2>1 DEF ScopesFollow, popScope
    <3>2. /\ scopes' \in Seq(Scopes)
          /\ Len(scopes') = Len(scopes) - 1
          /\ \A i \in 1 .. Len(scopes) - 1 : scopes'[i] = scopes[i]
      <4>1. scopes \in Seq(Scopes)
        BY DEF ScopesFollow
      <4>. QED
        BY <3>1, <4>1, BlockTaken
    <3>. QED
      BY <1>3, <1>5, <1>6, <2>1, <3>1, <3>2 DEF ScopesFollow
  <2>2. CASE blocks[N].kind \notin {"debug", "closure"}
    BY <1>3, <1>5, <2>2 DEF ScopesFollow
  <2>. QED
    BY <2>1, <2>2
<1>8. NamesGrow'
  BY <1>3 DEF NamesGrow, Named
<1>. QED
  BY <1>3, <1>4, <1>7, <1>8

-----------------------------------------------------------------------------
(* The steps, by the way they change the blocks. *)

\* What is emitted.
LEMMA Emitted ==
  ASSUME NEW n \in Nat, NEW o \in {"nothing", "begin", "return", "abort"}, NEW t \in 0 .. n
  PROVE  /\ Emitting(o, t) \in [op : {"nothing", "begin", "return", "abort"}, tx : 0 .. n]
         /\ Emitting(o, t).op = o /\ Emitting(o, t).tx = t
BY DEF Emitting

\* A statement without a body: only the last child of the innermost block
\* changes, and what a jump has added to the exits of a loop.
LEMMA ChildStep ==
  ASSUME IInv, Parse,
         NEW bs \in Seq(BlocksTo(length')), Len(bs) = Len(blocks),
         \A i \in 1 .. Len(blocks) :
           /\ bs[i].kind = blocks[i].kind /\ bs[i].tx = blocks[i].tx
           /\ bs[i].before = blocks[i].before /\ bs[i].body = blocks[i].body,
         NEW name \in NodeNames, blocks' = WithChild(bs, name),
         scopes' = scopes, atomics' = atomics,
         depths' \in SUBSET depths, name = "Return" => depths' = {},
         returned' \in SUBSET CountsTo(length'),
         NEW o \in {"nothing", "begin", "return", "abort"}, NEW t \in 0 .. length',
         emitted' = Emitting(o, t),
         o = "abort" /\ Plain => \E i \in Enclosing(Open) : blocks[i].tx = t,
         phase' \in {"parsing", "done", "rejected", "crashed"},
         Plain => /\ phase' # "rejected" /\ returned' \subseteq {0}
                  /\ \A i \in 1 .. Len(blocks) : bs[i].exits \subseteq {Depth(blocks, i - 1)}
  PROVE  IInv'
<1>. DEFINE N == Len(blocks)
<1>1. /\ N \in Nat /\ N >= 1 /\ depths \in SUBSET CountsTo(length')
      /\ length' \in 0 .. MaxLength /\ length' \in Nat /\ atomics \in 0 .. length'
  BY Later DEF IInv
<1>2. /\ blocks' \in Seq(BlocksTo(length')) /\ Len(blocks') = N
      /\ \A i \in 1 .. N :
           /\ blocks'[i].kind = blocks[i].kind /\ blocks'[i].tx = blocks[i].tx
           /\ blocks'[i].before = blocks[i].before /\ blocks'[i].body = blocks[i].body
           /\ blocks'[i].exits = bs[i].exits
      /\ blocks'[N].last = name
  BY <1>1, ChildAdded
<1>3. (FunctionFirst /\ ScopesFollow /\ NamesGrow)'
  BY <1>1, <1>2, StructureKept DEF IInv, Replaces, Named
<1>4. \A n \in 0 .. N : Depth(blocks', n) = Depth(blocks, n)
  <2>. SUFFICES ASSUME NEW n \in 0 .. N
                PROVE  Depth(blocks', n) = Depth(blocks, n)
    OBVIOUS
  <2>1. n \in Nat /\ \A i \in 1 .. n : blocks'[i].kind = blocks[i].kind
    BY <1>1, <1>2
  <2>. QED
    BY <2>1, SameKinds
<1>5. Typed'
  BY <1>1, <1>2, Emitted DEF IInv, Typed
<1>6. DepthsMatch'
  <2>. SUFFICES ASSUME Plain
                PROVE  (/\ phase # "rejected"
                        /\ depths \subseteq {Depth(blocks, Len(blocks))}
                        /\ returned \subseteq {0}
                        /\ Current.last = "Return" => depths = {}
                        /\ \A i \in 1 .. Len(blocks) :
                             blocks[i].before \cup blocks[i].body \cup blocks[i].exits
                               \subseteq {Depth(blocks, i - 1)})'
    BY DEF DepthsMatch
  <2>1. depths' \subseteq {Depth(blocks', Len(blocks'))}
    BY <1>1, <1>2, <1>4 DEF IInv, DepthsMatch
  <2>2. Current'.last = "Return" => depths' = {}
    BY <1>2 DEF Current, Top
  <2>3. ASSUME NEW i \in 1 .. N
        PROVE  blocks'[i].before \cup blocks'[i].body \cup blocks'[i].exits
                 \subseteq {Depth(blocks', i - 1)}
    <3>1. blocks[i].before \cup blocks[i].body \subseteq {Depth(blocks, i - 1)}
      BY DEF IInv, DepthsMatch
    <3>. QED
      BY <1>1, <1>2, <1>4, <3>1
  <2>. QED
    BY <1>2, <2>1, <2>2, <2>3
<1>7. AbortsNameTheirTransaction'
  <2>1. Open' = Open
    <3>1. OpenAt(blocks', N) = OpenAt(blocks, N)
      BY <1>1, <1>2, SameKinds
    <3>. QED
      BY <1>1, <1>2, <3>1, OpenIsOpenAt DEF Open, InFunction, OpenAt
  <2>2. emitted'.op = o /\ emitted'.tx = t
    BY <1>1, Emitted
  <2>3. \A i \in Enclosing(Open) : blocks'[i].tx = blocks[i].tx
    BY <1>2 DEF Enclosing, Open, InFunction
  <2>. QED
    BY <2>1, <2>2, <2>3 DEF AbortsNameTheirTransaction, Enclosing
<1>. QED
  BY <1>3, <1>5, <1>6, <1>7 DEF IInv

\* A statement with a body begins.
LEMMA EnterStep ==
  ASSUME IInv, Parse, NEW k \in Kinds, k # "function", k # "atomicElse",
         NEW t \in 0 .. length', NEW d \in SUBSET CountsTo(length'), Enter(k, t, d),
         NEW o \in {"nothing", "begin"}, NEW u \in 0 .. length', emitted' = Emitting(o, u),
         k = "atomic" => /\ t = atomics + 1 /\ d = {e + 1 : e \in depths}
                         /\ scopes' = scopedName(scopes) /\ atomics' = atomics + 1,
         k \in {"debug", "closure"} => scopes' = pushScope(scopes) /\ atomics' = atomics,
         k \notin {"atomic", "debug", "closure"} => scopes' = scopes /\ atomics' = atomics,
         k = "closure" => d = {0},
         k \notin {"atomic", "closure"} => d = depths
  PROVE  IInv'
<1>. DEFINE N == Len(blocks)  b == NewBlock(k, t, depths)
<1>1. /\ N \in Nat /\ N >= 1 /\ depths \in SUBSET CountsTo(length')
      /\ length' \in 0 .. MaxLength /\ length' \in Nat /\ atomics \in Nat
      /\ atomics' \in 0 .. length' /\ blocks \in Seq(BlocksTo(length'))
      /\ returned \in SUBSET CountsTo(length')
  BY Later DEF IInv
<1>2. /\ b \in BlocksTo(length') /\ b.kind = k /\ b.tx = t /\ b.last = "none"
      /\ b.before = depths /\ b.body = {} /\ b.exits = {}
  BY <1>1 DEF NewBlock, BlocksTo, NodeNames
<1>3. /\ N <= MaxNesting /\ blocks' = Append(blocks, b) /\ depths' = d
      /\ returned' = returned /\ phase' = phase
  BY DEF Enter
<1>4. /\ blocks' \in Seq(BlocksTo(length')) /\ Len(blocks') = N + 1
      /\ \A i \in 1 .. N : blocks'[i] = blocks[i]
      /\ blocks'[N + 1] = b
  <2>. HIDE DEF b
  <2>. QED
    BY <1>1, <1>2, <1>3, BlockAdded
<1>. HIDE DEF b
<1>5. (FunctionFirst /\ ScopesFollow /\ NamesGrow)'
  BY <1>1, <1>2, <1>4, StructureEntered DEF IInv
<1>6. Typed'
  BY <1>1, <1>3, <1>4, Emitted, BoundsAssumption DEF IInv, Typed
<1>7. DepthsMatch'
  <2>. SUFFICES ASSUME Plain
                PROVE  (/\ phase # "rejected"
                        /\ depths \subseteq {Depth(blocks, Len(blocks))}
                        /\ returned \subseteq {0}
                        /\ Current.last = "Return" => depths = {}
                        /\ \A i \in 1 .. Len(blocks) :
                             blocks[i].before \cup blocks[i].body \cup blocks[i].exits
                               \subseteq {Depth(blocks, i - 1)})'
    BY DEF DepthsMatch
  <2>1. \A n \in 0 .. N : Depth(blocks', n) = Depth(blocks, n)
    <3>. SUFFICES ASSUME NEW n \in 0 .. N
                  PROVE  Depth(blocks', n) = Depth(blocks, n)
      OBVIOUS
    <3>1. n \in Nat /\ \A i \in 1 .. n : blocks'[i].kind = blocks[i].kind
      BY <1>1, <1>4
    <3>. QED
      BY <3>1, SameKinds
  <2>2. depths \subseteq {Depth(blocks, N)} /\ Depth(blocks, N) \in Nat
    BY <1>1, Finite DEF IInv, DepthsMatch
  <2>3. Depth(blocks', N + 1) =
          CASE k = "closure" -> 0
            [] k = "atomic" -> Depth(blocks, N) + 1
            [] k \notin {"closure", "atomic"} -> Depth(blocks, N)
    <3>1. /\ blocks'[N + 1].kind = k /\ N \in Nat
          /\ Depth(blocks', N) = Depth(blocks, N)
      BY <1>1, <1>2, <1>4, <2>1
    <3>2. Depth(blocks', N + 1) =
            CASE blocks'[N + 1].kind = "closure" -> 0
              [] blocks'[N + 1].kind = "atomic" -> Depth(blocks', N) + 1
              [] blocks'[N + 1].kind \notin {"closure", "atomic"} -> Depth(blocks', N)
      BY <3>1, OneMoreOpen
    <3>. QED
      BY <3>1, <3>2
  <2>4. depths' \subseteq {Depth(blocks', Len(blocks'))}
    <3>1. CASE k = "closure"
      BY <1>3, <1>4, <2>3, <3>1
    <3>2. CASE k = "atomic"
      BY <1>3, <1>4, <2>2, <2>3, <3>2
    <3>3. CASE k \notin {"closure", "atomic"}
      BY <1>3, <1>4, <2>2, <2>3, <3>3
    <3>. QED
      BY <3>1, <3>2, <3>3
  <2>5. Current'.last = "none"
    BY <1>2, <1>4 DEF Current, Top
  <2>6. ASSUME NEW i \in 1 .. N + 1
        PROVE  blocks'[i].before \cup blocks'[i].body \cup blocks'[i].exits
                 \subseteq {Depth(blocks', i - 1)}
    <3>1. CASE i = N + 1
      BY <1>1, <1>2, <1>4, <2>1, <2>2, <3>1
    <3>2. CASE i \in 1 .. N
      <4>1. blocks[i].before \cup blocks[i].body \cup blocks[i].exits
              \subseteq {Depth(blocks, i - 1)}
        BY <3>2 DEF IInv, DepthsMatch
      <4>2. i - 1 \in 0 .. N
        BY <1>1, <3>2
      <4>. QED
        BY <1>4, <2>1, <3>2, <4>1, <4>2
    <3>. QED
      BY <1>1, <3>1, <3>2
  <2>7. phase' # "rejected" /\ returned' \subseteq {0}
    BY <1>3 DEF IInv, DepthsMatch
  <2>. QED
    BY <1>4, <2>4, <2>5, <2>6, <2>7
<1>8. AbortsNameTheirTransaction'
  <2>1. emitted'.op # "abort"
    BY <1>1, Emitted
  <2>. QED
    BY <1>3, <2>1 DEF IInv, AbortsNameTheirTransaction
<1>. QED
  BY <1>5, <1>6, <1>7, <1>8 DEF IInv

\* A statement with a body is complete.
LEMMA LeaveStep ==
  ASSUME IInv, Parse, Current.kind # "function",
         NEW d \in SUBSET CountsTo(length'), Leave(d),
         returned' \in SUBSET CountsTo(length'),
         scopes' = IF Current.kind \in {"debug", "closure"} THEN popScope(scopes) ELSE scopes,
         emitted' = Nothing, atomics' = atomics, phase' = phase,
         Plain => d \subseteq {Depth(blocks, Len(blocks) - 1)} /\ returned' \subseteq {0}
  PROVE  IInv'
<1>. DEFINE N == Len(blocks)
<1>1. /\ N \in Nat /\ N >= 1
      /\ length' \in 0 .. MaxLength /\ length' \in Nat /\ atomics \in 0 .. length'
      /\ atomics \in Nat /\ blocks \in Seq(BlocksTo(length'))
  BY Later DEF IInv
<1>2. N > 1
  BY <1>1 DEF IInv, FunctionFirst, Current, Top
<1>3. blocks' = WithChild(Below(blocks), "other")
  BY DEF Leave
<1>4. /\ blocks' \in Seq(BlocksTo(length')) /\ Len(blocks') = N - 1
      /\ \A i \in 1 .. N - 1 :
           /\ blocks'[i].kind = blocks[i].kind /\ blocks'[i].tx = blocks[i].tx
           /\ blocks'[i].before = blocks[i].before /\ blocks'[i].body = blocks[i].body
           /\ blocks'[i].exits = blocks[i].exits
      /\ blocks'[N - 1].last = "other"
  BY <1>1, <1>2, <1>3, ChildOfParent
<1>5. (FunctionFirst /\ ScopesFollow /\ NamesGrow)'
  <2>1. scopes' = IF blocks[N].kind \in {"debug", "closure"} THEN popScope(scopes) ELSE scopes
    BY DEF Current, Top
  <2>. QED
    BY <1>1, <1>2, <1>4, <2>1, StructureLeft DEF IInv
<1>6. depths' = d
  BY DEF Leave
<1>7. Typed'
  <2>1. emitted' \in [op : {"nothing", "begin", "return", "abort"}, tx : 0 .. length']
    BY <1>1, Emitted DEF Nothing
  <2>. QED
    BY <1>1, <1>2, <1>4, <1>6, <2>1, BoundsAssumption DEF IInv, Typed
<1>8. DepthsMatch'
  <2>. SUFFICES ASSUME Plain
                PROVE  (/\ phase # "rejected"
                        /\ depths \subseteq {Depth(blocks, Len(blocks))}
                        /\ returned \subseteq {0}
                        /\ Current.last = "Return" => depths = {}
                        /\ \A i \in 1 .. Len(blocks) :
                             blocks[i].before \cup blocks[i].body \cup blocks[i].exits
                               \subseteq {Depth(blocks, i - 1)})'
    BY DEF DepthsMatch
  <2>1. \A n \in 0 .. N - 1 : Depth(blocks', n) = Depth(blocks, n)
    <3>. SUFFICES ASSUME NEW n \in 0 .. N - 1
                  PROVE  Depth(blocks', n) = Depth(blocks, n)
      OBVIOUS
    <3>1. n \in Nat /\ \A i \in 1 .. n : blocks'[i].kind = blocks[i].kind
      BY <1>1, <1>4
    <3>. QED
      BY <3>1, SameKinds
  <2>2. depths' \subseteq {Depth(blocks', Len(blocks'))}
    BY <1>1, <1>2, <1>4, <1>6, <2>1
  <2>3. Current'.last = "other"
    BY <1>4 DEF Current, Top
  <2>4. ASSUME NEW i \in 1 .. N - 1
        PROVE  blocks'[i].before \cup blocks'[i].body \cup blocks'[i].exits
                 \subseteq {Depth(blocks', i - 1)}
    <3>1. i \in 1 .. N /\ i - 1 \in 0 .. N - 1
      BY <1>1
    <3>2. blocks[i].before \cup blocks[i].body \cup blocks[i].exits
            \subseteq {Depth(blocks, i - 1)}
      BY <3>1 DEF IInv, DepthsMatch
    <3>. QED
      BY <1>4, <2>1, <3>1, <3>2
  <2>5. phase' # "rejected"
    BY DEF IInv, DepthsMatch
  <2>. QED
    BY <1>4, <2>2, <2>3, <2>4, <2>5
<1>9. AbortsNameTheirTransaction'
  <2>1. emitted'.op # "abort"
    BY <1>1, Emitted DEF Nothing
  <2>. QED
    BY <2>1 DEF IInv, AbortsNameTheirTransaction
<1>. QED
  BY <1>5, <1>7, <1>8, <1>9 DEF IInv

\* A statement with a body has an else.
LEMMA SecondPartStep ==
  ASSUME IInv, Parse,
         NEW k, NEW d \in SUBSET CountsTo(length'), SecondPart(k, d),
         \/ Current.kind = "if" /\ k = "ifElse"
         \/ Current.kind = "atomic" /\ k = "atomicElse",
         depths' = Current.before, emitted' = Nothing,
         scopes' = scopes, returned' = returned, atomics' = atomics, phase' = phase,
         Plain => d \subseteq {Depth(blocks, Len(blocks) - 1)}
  PROVE  IInv'
<1>. DEFINE N == Len(blocks)
            b == [Current EXCEPT !.kind = k, !.body = d, !.last = "none"]
<1>1. /\ N \in Nat /\ N >= 1
      /\ length' \in 0 .. MaxLength /\ length' \in Nat /\ atomics \in 0 .. length'
      /\ atomics \in Nat /\ blocks \in Seq(BlocksTo(length'))
      /\ Current \in BlocksTo(length') /\ Current = blocks[N]
      /\ returned \in SUBSET CountsTo(length')
  BY Later DEF IInv, Current, Top
<1>2. /\ b \in BlocksTo(length') /\ b.kind = k /\ b.tx = Current.tx /\ b.last = "none"
      /\ b.before = Current.before /\ b.body = d /\ b.exits = Current.exits
  BY <1>1 DEF BlocksTo, NodeNames, Kinds
<1>3. blocks' = [blocks EXCEPT ![N] = b]
  BY DEF SecondPart
<1>. HIDE DEF b
<1>4. /\ blocks' \in Seq(BlocksTo(length')) /\ Len(blocks') = N
      /\ \A i \in 1 .. N : blocks'[i] = IF i = N THEN b ELSE blocks[i]
  BY <1>1, <1>2, <1>3
<1>5. (FunctionFirst /\ ScopesFollow /\ NamesGrow)'
  <2>1. \A i \in 1 .. N : Replaces(blocks'[i], blocks[i])
    BY <1>1, <1>2, <1>4 DEF Replaces, Named
  <2>. QED
    BY <1>1, <1>4, <2>1, StructureKept DEF IInv
<1>6. depths' \in SUBSET CountsTo(length')
  BY <1>1 DEF BlocksTo
<1>7. Typed'
  <2>1. emitted' \in [op : {"nothing", "begin", "return", "abort"}, tx : 0 .. length']
    BY <1>1, Emitted DEF Nothing
  <2>. QED
    BY <1>1, <1>4, <1>6, <2>1, BoundsAssumption DEF IInv, Typed
<1>8. DepthsMatch'
  <2>. SUFFICES ASSUME Plain
                PROVE  (/\ phase # "rejected"
                        /\ depths \subseteq {Depth(blocks, Len(blocks))}
                        /\ returned \subseteq {0}
                        /\ Current.last = "Return" => depths = {}
                        /\ \A i \in 1 .. Len(blocks) :
                             blocks[i].before \cup blocks[i].body \cup blocks[i].exits
                               \subseteq {Depth(blocks, i - 1)})'
    BY DEF DepthsMatch
  <2>1. \A n \in 0 .. N - 1 : Depth(blocks', n) = Depth(blocks, n)
    <3>. SUFFICES ASSUME NEW n \in 0 .. N - 1
                  PROVE  Depth(blocks', n) = Depth(blocks, n)
      OBVIOUS
    <3>1. n \in Nat /\ \A i \in 1 .. n : blocks'[i].kind = blocks[i].kind
      BY <1>1, <1>4
    <3>. QED
      BY <3>1, SameKinds
  <2>2. Depth(blocks', N) = Depth(blocks', N - 1)
    <3>1. blocks'[(N - 1) + 1].kind \notin {"closure", "atomic"}
      BY <1>1, <1>2, <1>4
    <3>2. N - 1 \in Nat
      BY <1>1
    <3>3. Depth(blocks', (N - 1) + 1) = Depth(blocks', N - 1)
      BY <3>1, <3>2, OneMoreOpen
    <3>. QED
      BY <1>1, <3>3
  <2>3. \A i \in 1 .. N :
          blocks[i].before \cup blocks[i].body \cup blocks[i].exits
            \subseteq {Depth(blocks, i - 1)}
    BY DEF IInv, DepthsMatch
  <2>4. depths' \subseteq {Depth(blocks', Len(blocks'))}
    BY <1>1, <1>4, <2>1, <2>2, <2>3
  <2>5. Current'.last = "none"
    BY <1>1, <1>2, <1>4 DEF Current, Top
  <2>6. ASSUME NEW i \in 1 .. N
        PROVE  blocks'[i].before \cup blocks'[i].body \cup blocks'[i].exits
                 \subseteq {Depth(blocks', i - 1)}
    <3>1. i - 1 \in 0 .. N - 1
      BY <1>1
    <3>2. CASE i = N
      BY <1>1, <1>2, <1>4, <2>1, <2>3, <3>1, <3>2
    <3>3. CASE i # N
      BY <1>4, <2>1, <2>3, <3>1, <3>3
    <3>. QED
      BY <3>2, <3>3
  <2>7. phase' # "rejected" /\ returned' \subseteq {0}
    BY DEF IInv, DepthsMatch
  <2>. QED
    BY <1>4, <2>4, <2>5, <2>6, <2>7
<1>9. AbortsNameTheirTransaction'
  <2>1. emitted'.op # "abort"
    BY <1>1, Emitted DEF Nothing
  <2>. QED
    BY <2>1 DEF IInv, AbortsNameTheirTransaction
<1>. QED
  BY <1>5, <1>7, <1>8, <1>9 DEF IInv

-----------------------------------------------------------------------------
(* The statements. *)

\* In the body of the latest atomic statement its name is the current one.
LEMMA Latest ==
  ASSUME IInv, InLatestAtomic
  PROVE  currentScopedName(scopes) = atomics /\ atomics >= 1
<1>1. Len(blocks) \in Nat /\ Len(blocks) >= 1 /\ atomics \in Nat
  BY BoundsAssumption DEF IInv, Typed
<1>2. currentScopedName(scopes) = atomics
  BY <1>1, Naming DEF IInv, InLatestAtomic
<1>3. PICK i \in 1 .. Len(blocks) : blocks[i].kind = "atomic" /\ blocks[i].tx = atomics
  BY DEF InLatestAtomic, Enclosing, Open, InFunction
<1>4. blocks[i].tx \in 1 .. atomics
  BY <1>3 DEF IInv, NamesGrow, Named
<1>. QED
  BY <1>1, <1>2, <1>3, <1>4

\* What every statement without a body can rely on.
LEMMA Statement ==
  ASSUME IInv, Parse
  PROVE  /\ blocks \in Seq(BlocksTo(length')) /\ returned \in SUBSET CountsTo(length')
         /\ length' \in Nat /\ 0 \in 0 .. length'
         /\ depths \in SUBSET CountsTo(length') /\ depths \subseteq Int
         /\ currentScopedName(scopes) \in 0 .. length'
         /\ phase \in {"parsing", "done", "rejected", "crashed"}
         /\ \A i \in 1 .. Len(blocks) : Plain => blocks[i].exits \subseteq {Depth(blocks, i - 1)}
         /\ Plain => /\ phase # "rejected" /\ returned \subseteq {0}
                     /\ depths \subseteq {Cardinality(Open)}
<1>1. Len(blocks) \in Nat /\ Len(blocks) >= 1
  BY Later DEF IInv
<1>2. currentScopedName(scopes) \in 0 .. length'
  <2>1. atomics \in Nat /\ atomics \in 0 .. length' /\ length' \in Nat
    BY Later DEF IInv
  <2>2. currentScopedName(scopes) \in {0, atomics}
    BY <1>1, <2>1, Naming DEF IInv
  <2>. QED
    BY <2>1, <2>2
<1>3. Cardinality(Open) = Depth(blocks, Len(blocks))
  BY <1>1, OpenIsOpenAt DEF Depth
<1>4. phase \in {"parsing", "done", "rejected", "crashed"}
  BY DEF IInv, Typed
<1>5. \A i \in 1 .. Len(blocks) : Plain => blocks[i].exits \subseteq {Depth(blocks, i - 1)}
  BY DEF IInv, DepthsMatch
<1>6. Plain => /\ phase # "rejected" /\ returned \subseteq {0}
               /\ depths \subseteq {Cardinality(Open)}
  BY <1>3 DEF IInv, DepthsMatch
<1>7. length' \in Nat /\ 0 \in 0 .. length'
  <2>1. length' \in Nat
    BY Later DEF IInv
  <2>. QED
    BY <2>1
<1>. QED
  BY <1>2, <1>4, <1>5, <1>6, <1>7, Later DEF IInv

LEMMA ExpressionStatementStep ==
  ASSUME IInv, ExpressionStatement
  PROVE  IInv'
<1>1. Parse /\ "other" \in NodeNames
  BY DEF ExpressionStatement, NodeNames
<1>2. /\ blocks' = WithChild(blocks, "other") /\ emitted' = Emitting("nothing", 0)
      /\ scopes' = scopes /\ depths' = depths /\ returned' = returned
      /\ atomics' = atomics /\ phase' = phase
  BY DEF ExpressionStatement, Nothing
<1>. QED
  BY <1>1, <1>2, Statement, ChildStep

\* A return leaves with what is open: one transaction and its name, or none.
LEMMA ReturnNodeStep ==
  ASSUME IInv, NEW tailing \in BOOLEAN, ReturnNode(tailing)
  PROVE  IInv'
<1>. DEFINE t == currentScopedName(scopes)  name == NodeName("Return", tailing)
<1>1. Parse
  BY DEF ReturnNode
<1>2. /\ blocks' = WithChild(blocks, name) /\ emitted' = Emitting("return", t)
      /\ scopes' = scopes /\ depths' = GoOn(tailing)
      /\ returned' = returned \cup {d - Ended(t) : d \in depths}
      /\ atomics' = atomics /\ phase' = phase
  BY DEF ReturnNode
<1>3. name \in NodeNames /\ depths' \in SUBSET depths /\ (name = "Return" => depths' = {})
  BY <1>2 DEF NodeName, NodeNames, GoOn
<1>4. returned' \in SUBSET CountsTo(length')
  <2>1. {d - Ended(t) : d \in depths} \in SUBSET CountsTo(length')
    <3>1. {d - 1 : d \in depths} \in SUBSET CountsTo(length')
      BY <1>1, Later DEF IInv
    <3>. QED
      BY <1>1, <3>1, Statement DEF Ended
  <2>. QED
    BY <1>1, <1>2, <2>1, Statement
<1>5. Plain => returned' \subseteq {0}
  <2>. SUFFICES ASSUME Plain
                PROVE  Cardinality(Open) = Ended(t)
    BY <1>1, <1>2, Statement DEF Ended
  <2>1. PlainReturn
    BY DEF ReturnNode
  <2>2. CASE Open = {} /\ (atomics = 0 \/ InDebugOrClosure)
    <3>1. t = 0
      <4>1. Len(blocks) \in Nat /\ atomics \in Nat
        BY <1>1, Later DEF IInv
      <4>. QED
        BY <2>2, <4>1, Naming DEF IInv
    <3>. QED
      BY <2>2, <3>1, FS_EmptySet DEF Ended
  <2>3. CASE Cardinality(Open) = 1 /\ InLatestAtomic
    BY <2>3, Latest DEF Ended
  <2>. QED
    BY <2>1, <2>2, <2>3 DEF PlainReturn
<1>. HIDE DEF t, name
<1>6. t \in 0 .. length'
  BY <1>1, Statement DEF t
<1>. QED
  BY <1>1, <1>2, <1>3, <1>4, <1>5, <1>6, Statement, ChildStep

\* An abort names the latest atomic statement, the innermost around it.
LEMMA AbortStatementNodeStep ==
  ASSUME IInv, NEW tailing \in BOOLEAN, AbortStatementNode(tailing)
  PROVE  IInv'
<1>. DEFINE t == currentScopedName(scopes)  name == NodeName("other", tailing)
<1>1. Parse /\ name \in NodeNames
  BY DEF AbortStatementNode, NodeName, NodeNames
<1>2. /\ scopes' = scopes /\ depths' = depths /\ returned' = returned /\ atomics' = atomics
  BY DEF AbortStatementNode
<1>3. Plain => InLatestAtomic
  BY DEF AbortStatementNode, PlainAbort
<1>4. CASE t = 0
  <2>1. blocks' = blocks /\ emitted' = Emitting("nothing", 0) /\ phase' = "rejected"
    BY <1>4 DEF AbortStatementNode, Nothing
  <2>2. ~Plain
    BY <1>3, <1>4, Latest
  <2>3. (FunctionFirst /\ ScopesFollow /\ NamesGrow)'
    <3>1. \A i \in 1 .. Len(blocks) : Replaces(blocks'[i], blocks[i])
      BY <2>1 DEF Replaces
    <3>2. Len(blocks) \in Nat
      BY DEF IInv, Typed
    <3>. QED
      BY <1>2, <2>1, <3>1, <3>2, StructureKept DEF IInv
  <2>4. Typed'
    <3>1. emitted' \in [op : {"nothing", "begin", "return", "abort"}, tx : 0 .. length']
      BY <1>1, <2>1, Statement, Emitted
    <3>2. length' \in 0 .. MaxLength /\ atomics \in 0 .. length'
      BY <1>1, Later DEF IInv
    <3>. QED
      BY <1>1, <1>2, <2>1, <3>1, <3>2, Statement DEF IInv, Typed
  <2>. QED
    BY <2>2, <2>3, <2>4 DEF IInv, DepthsMatch, AbortsNameTheirTransaction
<1>5. CASE t # 0
  <2>1. blocks' = WithChild(blocks, name) /\ emitted' = Emitting("abort", t) /\ phase' = phase
    BY <1>5 DEF AbortStatementNode
  <2>2. Plain => \E i \in Enclosing(Open) : blocks[i].tx = t
    BY <1>3, Latest DEF InLatestAtomic
  <2>. HIDE DEF t, name
  <2>3. t \in 0 .. length'
    BY <1>1, Statement DEF t
  <2>4. name = "Return" => depths' = {}
    BY DEF name, NodeName
  <2>. QED
    BY <1>1, <1>2, <2>1, <2>2, <2>3, <2>4, Statement, ChildStep
<1>. QED
  BY <1>4, <1>5

\* A jump leaves a loop, and no atomic statement in it: as much is open as was
\* in front of the loop.
LEMMA JumpNodeStep ==
  ASSUME IInv, NEW name \in {"break", "continue"}, NEW tailing \in BOOLEAN,
         JumpNode(name, tailing)
  PROVE  IInv'
<1>. DEFINE child == NodeName("other", tailing)
<1>1. Parse /\ child \in NodeNames /\ child # "Return"
  BY DEF JumpNode, NodeName, NodeNames
<1>2. /\ scopes' = scopes /\ depths' \in SUBSET depths /\ returned' = returned
      /\ atomics' = atomics /\ phase' = phase /\ emitted' = Emitting("nothing", 0)
  BY DEF JumpNode, GoOn, Nothing
<1>3. PICK l \in Enclosing(Loops) :
        blocks' = WithChild(
          IF name = "break" \/ blocks[l].kind = "loop"
            THEN [blocks EXCEPT ![l].exits = @ \cup depths] ELSE blocks, child)
  BY DEF JumpNode
<1>4. /\ l \in 1 .. Len(blocks) /\ blocks[l].kind \in {"loop", "forever"}
      /\ \A j \in l + 1 .. Len(blocks) : blocks[j].kind # "closure"
  BY DEF Enclosing, Loops, InFunction
<1>5. Plain => depths \subseteq {Depth(blocks, l - 1)}
  <2>. SUFFICES ASSUME Plain
                PROVE  Open = OpenAt(blocks, l - 1)
    BY <1>1, Statement DEF Depth
  <2>1. \A j \in Open : j < l
    BY DEF JumpNode, PlainJump
  <2>2. Len(blocks) \in Nat
    BY DEF IInv, Typed
  <2>3. OpenAt(blocks, l - 1) \subseteq Open
    BY <1>4, <2>2 DEF OpenAt, Open, InFunction
  <2>4. Open \subseteq OpenAt(blocks, l - 1)
    BY <1>4, <2>1, <2>2 DEF OpenAt, Open, InFunction
  <2>. QED
    BY <2>3, <2>4
<1>6. CASE name = "break" \/ blocks[l].kind = "loop"
  <2>. DEFINE b == [blocks[l] EXCEPT !.exits = blocks[l].exits \cup depths]
              bs == [blocks EXCEPT ![l] = b]
  <2>1. blocks[l] \in BlocksTo(length')
    BY <1>1, <1>4, Statement
  <2>2. /\ b \in BlocksTo(length') /\ b.kind = blocks[l].kind /\ b.tx = blocks[l].tx
        /\ b.before = blocks[l].before /\ b.body = blocks[l].body
        /\ b.exits = blocks[l].exits \cup depths
    BY <1>1, <2>1, Statement DEF BlocksTo
  <2>3. blocks' = WithChild(bs, child)
    BY <1>3, <1>6
  <2>. HIDE DEF b
  <2>4. /\ bs \in Seq(BlocksTo(length')) /\ Len(bs) = Len(blocks)
        /\ \A i \in 1 .. Len(blocks) : bs[i] = IF i = l THEN b ELSE blocks[i]
    BY <1>1, <1>4, <2>2, Statement
  <2>. HIDE DEF bs, child
  <2>5. \A i \in 1 .. Len(blocks) :
          /\ bs[i].kind = blocks[i].kind /\ bs[i].tx = blocks[i].tx
          /\ bs[i].before = blocks[i].before /\ bs[i].body = blocks[i].body
    BY <2>2, <2>4
  <2>6. Plain => \A i \in 1 .. Len(blocks) : bs[i].exits \subseteq {Depth(blocks, i - 1)}
    BY <1>1, <1>4, <1>5, <2>2, <2>4, Statement
  <2>. QED
    BY <1>1, <1>2, <2>3, <2>4, <2>5, <2>6, Statement, ChildStep
<1>7. CASE ~(name = "break" \/ blocks[l].kind = "loop")
  <2>1. blocks' = WithChild(blocks, child)
    BY <1>3, <1>7
  <2>. HIDE DEF child
  <2>. QED
    BY <1>1, <1>2, <2>1, Statement, ChildStep
<1>. QED
  BY <1>6, <1>7

\* Whatever opens a body.
LEMMA OpeningStep ==
  ASSUME IInv, AtomicStatementNode \/ IfNode \/ LoopNode \/ DebugNode \/ ClosureNode
  PROVE  IInv'
<1>1. Parse
  BY DEF AtomicStatementNode, IfNode, LoopNode, DebugNode, ClosureNode
<1>2. /\ length' \in Nat /\ 0 \in 0 .. length' /\ depths \in SUBSET CountsTo(length')
      /\ {d + 1 : d \in depths} \in SUBSET CountsTo(length')
      /\ {0} \in SUBSET CountsTo(length') /\ atomics + 1 \in 0 .. length'
      /\ atomics \in Nat /\ Len(blocks) \in Nat
  BY <1>1, Later, Statement DEF IInv
<1>3. {"atomic", "if", "loop", "forever", "debug", "closure"} \subseteq Kinds
  BY DEF Kinds
<1>4. CASE AtomicStatementNode
  <2>1. scopedName(scopes)[Namer(scopedName(scopes))].tx = atomics + 1
    BY <1>2, Naming DEF IInv
  <2>2. /\ Enter("atomic", atomics + 1, {d + 1 : d \in depths})
        /\ scopes' = scopedName(scopes) /\ atomics' = atomics + 1
        /\ emitted' = Emitting("begin", atomics + 1)
    BY <1>4, <2>1 DEF AtomicStatementNode
  <2>. QED
    BY <1>1, <1>2, <1>3, <2>2, EnterStep
<1>5. CASE IfNode
  <2>1. /\ Enter("if", 0, depths) /\ scopes' = scopes /\ atomics' = atomics
        /\ emitted' = Emitting("nothing", 0)
    BY <1>5 DEF IfNode, Nothing
  <2>. QED
    BY <1>1, <1>2, <1>3, <2>1, EnterStep
<1>6. CASE LoopNode
  <2>1. PICK k \in {"loop", "forever"} : Enter(k, 0, depths)
    BY <1>6 DEF LoopNode
  <2>2. scopes' = scopes /\ atomics' = atomics /\ emitted' = Emitting("nothing", 0)
    BY <1>6 DEF LoopNode, Nothing
  <2>. QED
    BY <1>1, <1>2, <1>3, <2>1, <2>2, EnterStep
<1>7. CASE DebugNode
  <2>1. /\ Enter("debug", 0, depths) /\ scopes' = pushScope(scopes) /\ atomics' = atomics
        /\ emitted' = Emitting("nothing", 0)
    BY <1>7 DEF DebugNode, Nothing
  <2>. QED
    BY <1>1, <1>2, <1>3, <2>1, EnterStep
<1>8. CASE ClosureNode
  <2>1. /\ Enter("closure", 0, {0}) /\ scopes' = pushScope(scopes) /\ atomics' = atomics
        /\ emitted' = Emitting("nothing", 0)
    BY <1>8 DEF ClosureNode, Nothing
  <2>. QED
    BY <1>1, <1>2, <1>3, <2>1, EnterStep
<1>. QED
  BY <1>4, <1>5, <1>6, <1>7, <1>8

-----------------------------------------------------------------------------
(* What closes. *)

\* What is behind a body, in terms of what was open in front of it.
LEMMA Behind ==
  ASSUME IInv, Parse
  PROVE  /\ EndOfBody(Current, depths) \in SUBSET CountsTo(length')
         /\ {depths, Current.before, Current.body, Current.exits}
              \subseteq SUBSET CountsTo(length')
         /\ Plain =>
              LET n == Depth(blocks, Len(blocks) - 1) IN
              /\ Current.before \cup Current.body \cup Current.exits \subseteq {n}
              /\ Current.kind = "atomic" => EndOfBody(Current, depths) \subseteq {n}
              /\ Current.kind \notin {"atomic", "closure"} => depths \subseteq {n}
              /\ Current.kind = "closure" => depths \subseteq {0}
<1>. DEFINE N == Len(blocks)  n == Depth(blocks, N - 1)
<1>1. /\ N \in Nat /\ N >= 1 /\ Current = blocks[(N - 1) + 1] /\ N - 1 \in Nat
      /\ Current \in BlocksTo(length') /\ depths \in SUBSET CountsTo(length')
      /\ {d - 1 : d \in depths} \in SUBSET CountsTo(length')
  BY Later DEF IInv, Current, Top
<1>2. EndOfBody(Current, depths) \in SUBSET CountsTo(length')
  BY <1>1 DEF EndOfBody
<1>3. {depths, Current.before, Current.body, Current.exits} \subseteq SUBSET CountsTo(length')
  BY <1>1 DEF BlocksTo
<1>4. ASSUME Plain
      PROVE  /\ Current.before \cup Current.body \cup Current.exits \subseteq {n}
             /\ Current.kind = "atomic" => EndOfBody(Current, depths) \subseteq {n}
             /\ Current.kind \notin {"atomic", "closure"} => depths \subseteq {n}
             /\ Current.kind = "closure" => depths \subseteq {0}
  <2>1. /\ depths \subseteq {Depth(blocks, N)}
        /\ Current.last = "Return" => depths = {}
        /\ \A i \in 1 .. N :
             blocks[i].before \cup blocks[i].body \cup blocks[i].exits
               \subseteq {Depth(blocks, i - 1)}
    BY <1>4 DEF IInv, DepthsMatch
  <2>2. Depth(blocks, (N - 1) + 1) =
          CASE blocks[(N - 1) + 1].kind = "closure" -> 0
            [] blocks[(N - 1) + 1].kind = "atomic" -> Depth(blocks, N - 1) + 1
            [] blocks[(N - 1) + 1].kind \notin {"closure", "atomic"} -> Depth(blocks, N - 1)
    BY <1>1, OneMoreOpen
  <2>3. Depth(blocks, N) =
          CASE Current.kind = "closure" -> 0
            [] Current.kind = "atomic" -> n + 1
            [] Current.kind \notin {"closure", "atomic"} -> n
    BY <1>1, <2>2
  <2>4. n \in Nat
    BY <1>1, Finite
  <2>. HIDE DEF n
  <2>5. Current.before \cup Current.body \cup Current.exits \subseteq {n}
    BY <1>1, <2>1 DEF n
  <2>6. Current.kind = "atomic" => EndOfBody(Current, depths) \subseteq {n}
    BY <2>1, <2>3, <2>4 DEF EndOfBody
  <2>. QED
    BY <2>1, <2>3, <2>5, <2>6
<1>. QED
  BY <1>2, <1>3, <1>4

\* What leaves the blocks alone.
LEMMA BlocksAlone ==
  ASSUME IInv, Parse, blocks' = blocks, scopes' = scopes, depths' = depths,
         atomics' = atomics, emitted' = Nothing, phase' \in {"done", "crashed"},
         returned' \in SUBSET CountsTo(length'), Plain => returned' \subseteq {0}
  PROVE  IInv'
<1>1. Len(blocks) \in Nat /\ length' \in Nat /\ length' \in 0 .. MaxLength
  BY Later DEF IInv
<1>2. (FunctionFirst /\ ScopesFollow /\ NamesGrow)'
  <2>1. \A i \in 1 .. Len(blocks) : Replaces(blocks'[i], blocks[i])
    BY DEF Replaces
  <2>. QED
    BY <1>1, <2>1, StructureKept DEF IInv
<1>3. emitted' \in [op : {"nothing", "begin", "return", "abort"}, tx : 0 .. length']
      /\ emitted'.op # "abort"
  BY <1>1, Emitted DEF Nothing
<1>4. Typed'
  BY <1>1, <1>3, Later DEF IInv, Typed
<1>5. DepthsMatch'
  BY DEF IInv, DepthsMatch, Current
<1>6. AbortsNameTheirTransaction'
  BY <1>3 DEF AbortsNameTheirTransaction
<1>. QED
  BY <1>2, <1>4, <1>5, <1>6 DEF IInv

LEMMA CrashStep ==
  ASSUME IInv, Crash
  PROVE  IInv'
<1>1. Parse
  BY DEF Crash
<1>. QED
  BY <1>1, Statement, BlocksAlone DEF Crash

LEMMA EndFunctionStep ==
  ASSUME IInv, EndFunction
  PROVE  IInv'
<1>1. Parse /\ Len(blocks) = 1
  BY DEF EndFunction
<1>2. Current.kind = "function"
  BY <1>1 DEF IInv, FunctionFirst, Current, Top
<1>3. Plain => depths \subseteq {0}
  <2>1. OpenAt(blocks, 0) = {}
    BY DEF OpenAt
  <2>2. Depth(blocks, 0) = 0
    BY <2>1, FS_EmptySet DEF Depth
  <2>3. Plain => depths \subseteq {Depth(blocks, Len(blocks) - 1)}
    BY <1>1, <1>2, Behind
  <2>. QED
    BY <1>1, <2>2, <2>3
<1>. QED
  BY <1>1, <1>3, Statement, BlocksAlone DEF EndFunction

LEMMA ElseNodeStep ==
  ASSUME IInv, ElseNode
  PROVE  IInv'
<1>1. /\ Parse /\ depths' = Current.before /\ emitted' = Nothing
      /\ scopes' = scopes /\ returned' = returned /\ atomics' = atomics /\ phase' = phase
  BY DEF ElseNode
<1>2. CASE Current.kind = "if" /\ SecondPart("ifElse", depths)
  BY <1>1, <1>2, Behind, SecondPartStep
<1>3. CASE Current.kind = "atomic" /\ SecondPart("atomicElse", EndOfBody(Current, depths))
  BY <1>1, <1>3, Behind, SecondPartStep
<1>. QED
  BY <1>2, <1>3 DEF ElseNode

LEMMA EndStep ==
  ASSUME IInv, End
  PROVE  IInv'
<1>1. /\ Parse /\ emitted' = Nothing
      /\ scopes' = IF Current.kind = "debug" THEN popScope(scopes) ELSE scopes
      /\ returned' = returned /\ atomics' = atomics /\ phase' = phase
  BY DEF End
<1>2. ASSUME NEW d \in SUBSET CountsTo(length'), Leave(d),
             Current.kind \notin {"function", "closure"},
             Plain => d \subseteq {Depth(blocks, Len(blocks) - 1)}
      PROVE  IInv'
  BY <1>1, <1>2, Statement, LeaveStep
<1>3. CASE Current.kind = "atomic" /\ Leave(EndOfBody(Current, depths))
  BY <1>1, <1>2, <1>3, Behind
<1>4. CASE Current.kind \in {"atomicElse", "ifElse"} /\ Leave(depths \cup Current.body)
  BY <1>1, <1>2, <1>4, Behind
<1>5. CASE Current.kind = "if" /\ Leave(depths \cup Current.before)
  BY <1>1, <1>2, <1>5, Behind
<1>6. CASE Current.kind = "loop" /\ Leave(depths \cup Current.before \cup Current.exits)
  BY <1>1, <1>2, <1>6, Behind
<1>7. CASE Current.kind = "forever" /\ Leave(Current.exits)
  BY <1>1, <1>2, <1>7, Behind
<1>8. CASE Current.kind = "debug" /\ Leave(depths)
  BY <1>1, <1>2, <1>8, Behind
<1>. QED
  BY <1>3, <1>4, <1>5, <1>6, <1>7, <1>8 DEF End

LEMMA EndClosureStep ==
  ASSUME IInv, EndClosure
  PROVE  IInv'
<1>1. /\ Parse /\ emitted' = Nothing /\ Current.kind = "closure"
      /\ scopes' = popScope(scopes) /\ Leave(Current.before)
      /\ returned' = returned \cup depths /\ atomics' = atomics /\ phase' = phase
  BY DEF EndClosure
<1>2. /\ Current.before \in SUBSET CountsTo(length')
      /\ Plain => /\ Current.before \subseteq {Depth(blocks, Len(blocks) - 1)}
                  /\ depths \subseteq {0}
  BY <1>1, Behind
<1>3. returned' \in SUBSET CountsTo(length') /\ (Plain => returned' \subseteq {0})
  BY <1>1, <1>2, Statement
<1>. QED
  BY <1>1, <1>2, <1>3, LeaveStep

-----------------------------------------------------------------------------
(* The invariants. *)

LEMMA Initially ==
  ASSUME Init
  PROVE  IInv
<1>. DEFINE b == NewBlock("function", 0, {0})
<1>1. /\ b \in BlocksTo(0) /\ b.kind = "function" /\ b.last = "none"
      /\ b.before = {0} /\ b.body = {} /\ b.exits = {}
  BY DEF NewBlock, BlocksTo, CountsTo, Kinds, NodeNames
<1>2. /\ blocks = <<b>> /\ depths = {0} /\ returned = {} /\ emitted = Emitting("nothing", 0)
      /\ atomics = 0 /\ phase = "parsing" /\ length = 0
      /\ scopes = <<[named |-> TRUE, tx |-> 0]>>
  BY DEF Init, Nothing
<1>. HIDE DEF b
<1>3. blocks \in Seq(BlocksTo(0)) /\ Len(blocks) = 1 /\ blocks[1] = b
  BY <1>1, <1>2
<1>4. Typed
  <2>1. emitted \in [op : {"nothing", "begin", "return", "abort"}, tx : 0 .. 0]
    BY <1>2, Emitted
  <2>2. CountsTo(0) = {0}
    BY DEF CountsTo
  <2>3. 0 \in 0 .. MaxLength /\ 1 \in 1 .. MaxNesting + 1
    BY BoundsAssumption
  <2>. QED
    BY <1>2, <1>3, <2>1, <2>2, <2>3 DEF Typed
<1>5. FunctionFirst
  BY <1>1, <1>3 DEF FunctionFirst
<1>6. Scoped(blocks, 1) = {} /\ OpenAt(blocks, 1) = {} /\ OpenAt(blocks, 0) = {}
  BY <1>1, <1>3 DEF Scoped, OpenAt
<1>7. ScopesFollow
  <2>1. Cardinality(Scoped(blocks, Len(blocks))) = 0
    BY <1>3, <1>6, FS_EmptySet
  <2>2. [named |-> TRUE, tx |-> 0] \in Scopes
    BY DEF Scopes
  <2>3. scopes \in Seq(Scopes) /\ Len(scopes) = 1 /\ scopes[1].named /\ scopes[1].tx = 0
    BY <1>2, <2>2
  <2>. QED
    BY <1>2, <2>1, <2>3 DEF ScopesFollow
<1>8. NamesGrow
  BY <1>1, <1>3 DEF NamesGrow, Named
<1>9. DepthsMatch
  <2>1. Depth(blocks, 1) = 0 /\ Depth(blocks, 0) = 0
    BY <1>6, FS_EmptySet DEF Depth
  <2>2. Current.last = "none"
    BY <1>1, <1>3 DEF Current, Top
  <2>. QED
    BY <1>1, <1>2, <1>3, <2>1, <2>2 DEF DepthsMatch
<1>10. AbortsNameTheirTransaction
  BY <1>2, Emitted DEF AbortsNameTheirTransaction
<1>. QED
  BY <1>4, <1>5, <1>7, <1>8, <1>9, <1>10 DEF IInv

LEMMA Inductive ==
  ASSUME IInv, [Next]_vars
  PROVE  IInv'
<1>1. CASE Next
  BY <1>1, ExpressionStatementStep, ReturnNodeStep, AbortStatementNodeStep, JumpNodeStep,
     OpeningStep, CrashStep, ElseNodeStep, EndStep, EndClosureStep, EndFunctionStep DEF Next
<1>2. CASE UNCHANGED vars
  <2>1. /\ blocks' = blocks /\ scopes' = scopes /\ depths' = depths /\ returned' = returned
        /\ emitted' = emitted /\ atomics' = atomics /\ phase' = phase /\ length' = length
    BY <1>2 DEF vars
  <2>2. (Typed /\ FunctionFirst /\ ScopesFollow /\ NamesGrow)'
    BY <2>1 DEF IInv, Typed, FunctionFirst, ScopesFollow, NamesGrow
  <2>3. DepthsMatch'
    BY <2>1 DEF IInv, DepthsMatch, Current
  <2>4. AbortsNameTheirTransaction'
    BY <2>1 DEF IInv, AbortsNameTheirTransaction, Open, InFunction
  <2>. QED
    BY <2>2, <2>3, <2>4 DEF IInv
<1>. QED
  BY <1>1, <1>2

\* What the steps keep, for bodies of every length and nesting.
THEOREM Invariance == Spec => []IInv
BY Initially, Inductive, PTL DEF Spec

\* Every variable keeps its type: there are no more scopes than blocks, and no
\* count outruns the steps.
THEOREM TypeCorrect == Spec => []TypeOK
<1>1. ASSUME IInv
      PROVE  TypeOK
  <2>. DEFINE N == Len(blocks)
  <2>1. /\ length \in Nat /\ MaxLength \in Nat /\ length \in 0 .. MaxLength
        /\ N \in Nat /\ N >= 1 /\ atomics \in 0 .. length
    BY <1>1, BoundsAssumption DEF IInv, Typed
  <2>2. CountsTo(length) \subseteq Counts /\ 0 .. length \subseteq 0 .. MaxLength
    BY <2>1 DEF CountsTo, Counts
  <2>3. blocks \in Seq(Blocks)
    <3>1. SUBSET CountsTo(length) \subseteq SUBSET Counts
      BY <2>2
    <3>2. BlocksTo(length) \subseteq Blocks
      BY <2>2, <3>1 DEF BlocksTo, Blocks
    <3>. QED
      BY <1>1, <3>2 DEF IInv, Typed
  <2>4. Len(scopes) \in 1 .. N
    <3>1. Scoped(blocks, N) \subseteq 2 .. N
      BY <1>1, <2>1 DEF Scoped, IInv, FunctionFirst
    <3>2. IsFiniteSet(2 .. N) /\ Cardinality(2 .. N) = N - 1
      BY <2>1, FS_Interval
    <3>3. Cardinality(Scoped(blocks, N)) <= N - 1 /\ Cardinality(Scoped(blocks, N)) \in Nat
      BY <2>1, <3>1, <3>2, FS_Subset, Finite
    <3>. QED
      BY <1>1, <2>1, <3>3 DEF IInv, ScopesFollow
  <2>5. scopes \in Seq([named : BOOLEAN, tx : 0 .. MaxLength])
    <3>. DEFINE S == [named : BOOLEAN, tx : 0 .. MaxLength]
    <3>1. /\ scopes \in Seq(Scopes)
          /\ scopes[1].tx = atomics /\ \A i \in 2 .. Len(scopes) : scopes[i].tx = 0
      BY <1>1 DEF IInv, ScopesFollow
    <3>2. ASSUME NEW i \in 1 .. Len(scopes)
          PROVE  scopes[i] \in S
      <4>1. scopes[i] \in Scopes
        BY <3>1
      <4>2. scopes[i].tx \in 0 .. MaxLength
        BY <2>1, <2>2, <3>1
      <4>. QED
        BY <4>1, <4>2 DEF Scopes
    <3>. HIDE DEF S
    <3>3. scopes \in Seq(S)
      BY <3>1, <3>2
    <3>. QED
      BY <3>3 DEF S
  <2>6. emitted \in [op : {"nothing", "begin", "return", "abort"}, tx : 0 .. MaxLength]
    BY <1>1, <2>2 DEF IInv, Typed
  <2>. QED
    BY <1>1, <2>1, <2>2, <2>3, <2>4, <2>5, <2>6 DEF IInv, Typed, TypeOK
<1>. QED
  BY <1>1, Invariance, PTL

\* Enclosing transactions have different names, since each has a later name
\* than those around it.
THEOREM DifferentNames == Spec => []NamesDiffer
<1>1. ASSUME IInv
      PROVE  NamesDiffer
  <2>1. \A i \in 1 .. Len(blocks) : Named(blocks[i]) => blocks[i].tx \in 1 .. atomics
    BY <1>1 DEF IInv, NamesGrow
  <2>2. Len(blocks) \in Nat /\ atomics \in Nat
    BY <1>1, BoundsAssumption DEF IInv, Typed
  <2>. QED
    BY <1>1, <2>1, <2>2 DEF IInv, NamesGrow, NamesDiffer, Named
<1>. QED
  BY <1>1, Invariance, PTL

\* In a disciplined program each abort names the innermost transaction.
THEOREM AbortsAreOfTheInnermost == Spec => []AbortsNameTheirTransaction
<1>1. IInv => AbortsNameTheirTransaction
  BY DEF IInv
<1>. QED
  BY <1>1, Invariance, PTL

\* In a disciplined program every path has open what encloses it, and nothing
\* where it leaves a function.
THEOREM EveryPathIsBalanced == Spec => []Balanced
<1>1. ASSUME IInv
      PROVE  Balanced
  <2>1. Cardinality(Open) = Depth(blocks, Len(blocks))
    BY <1>1, OpenIsOpenAt DEF IInv, Typed, Depth
  <2>. QED
    BY <1>1, <2>1 DEF IInv, DepthsMatch, Balanced
<1>. QED
  BY <1>1, Invariance, PTL

=============================================================================
