---------------------- MODULE TransactionalMemory_proof ----------------------
(***************************************************************************)
(* Proofs about TransactionalMemory, for any set of threads, locations and *)
(* values, any number of attempts, with or without RTM.                    *)
(***************************************************************************)
EXTENDS TransactionalMemory, TLAPS

-----------------------------------------------------------------------------
(* What the parts that several actions share do. *)

\* The wrap-around of the counter does nothing to small numbers.
LEMMA SmallModulo ==
  ASSUME NEW n \in Nat \ {0}, NEW a \in 0 .. n - 1
  PROVE  a % n = a
OBVIOUS

\* A rollback takes the transactions of V to their check, and t to p.
LEMMA RollBackEffect ==
  ASSUME TypeOK, NEW t \in Threads, NEW V \in SUBSET Threads,
         NEW verdict \in [V -> Status], NEW p \in ControlPoints,
         RollBack(V, verdict, t, p)
  PROVE  /\ nest' \in [Threads -> 0 .. MaxDepth]
         /\ watching' \subseteq Threads
         /\ status' \in [Threads -> Status]
         /\ pc' \in [Threads -> ControlPoints]
         /\ \A u \in V : nest'[u] = 0 /\ u \notin watching' /\ pc'[u] = "check"
         /\ \A u \in Threads \ V :
              /\ nest'[u] = nest[u]
              /\ u \in watching' <=> u \in watching
              /\ pc'[u] = IF u = t THEN p ELSE pc[u]
<1> USE ConstantsAssumption DEF TypeOK, RollBack
<1>1. nest' \in [Threads -> 0 .. MaxDepth]
  OBVIOUS
<1>2. watching' \subseteq Threads
  OBVIOUS
<1>3. status' \in [Threads -> Status]
  OBVIOUS
<1>4. pc' \in [Threads -> ControlPoints]
  BY DEF ControlPoints
<1>5. \A u \in V : nest'[u] = 0 /\ u \notin watching' /\ pc'[u] = "check"
  OBVIOUS
<1>6. \A u \in Threads \ V :
        /\ nest'[u] = nest[u]
        /\ u \in watching' <=> u \in watching
        /\ pc'[u] = IF u = t THEN p ELSE pc[u]
  OBVIOUS
<1>. QED
  BY <1>1, <1>2, <1>3, <1>4, <1>5, <1>6

\* Whatever the hardware reports of a rollback is a status.
LEMMA VerdictsAreStatuses ==
  ASSUME NEW V, NEW verdict \in HardwareVerdicts(V)
  PROVE  verdict \in [V -> Status]
BY DEF HardwareVerdicts, Status

\* Conflicts hit transactions of other threads.
LEMMA ConflictsAreOthers ==
  ASSUME TypeOK, NEW t \in Threads
  PROVE  /\ CountConflicts(t) \subseteq {u \in Threads \ {t} : InTransaction(u)}
         /\ \A x \in Locs :
              /\ WriteConflicts(t, x) \subseteq {u \in Threads \ {t} : InTransaction(u)}
              /\ ReadConflicts(t, x) \subseteq {u \in Threads \ {t} : InTransaction(u)}
BY DEF WriteConflicts, ReadConflicts, CountConflicts, TypeOK

\* The logs stay functions from threads to logs.
LEMMA LogsTyped ==
  ASSUME NEW log \in [Threads -> [Locs -> Vals \cup {None}]], NEW V
  PROVE  /\ AB!Untouched \in [Locs -> Vals \cup {None}]
         /\ AB!Forget(log, V) \in [Threads -> [Locs -> Vals \cup {None}]]
         /\ Undone(log, V) \in [Threads -> [Locs -> Vals \cup {None}]]
BY DEF AB!Untouched, AB!Forget, Undone

\* Memory with a block's writes over it is memory.
LEMMA OverlayTyped ==
  ASSUME NEW f \in [Locs -> Vals], NEW w \in [Locs -> Vals \cup {None}]
  PROVE  AB!Overlay(f, w) \in [Locs -> Vals]
BY ConstantsAssumption DEF AB!Overlay

-----------------------------------------------------------------------------
(* Control: types, the counter, and where a thread can be. *)

\* The runtime starts with its control in order.
LEMMA InitControl == Init => ControlInv
<1> SUFFICES ASSUME Init PROVE ControlInv
  OBVIOUS
<1> USE ConstantsAssumption DEF Init
<1>1. TypeOK
  <2>1. owner \in Threads \cup {None} /\ holds \in 0 .. MaxDepth
        /\ count \in 0 .. UIntSize - 1
    OBVIOUS
  <2>2. mem \in [Locs -> Vals] /\ committed \in [Locs -> Vals]
    OBVIOUS
  <2>3. nest \in [Threads -> 0 .. MaxDepth]
    OBVIOUS
  <2>4. AB!Untouched \in [Locs -> Vals \cup {None}]
    BY DEF AB!Untouched
  <2>5. /\ pc \in [Threads -> ControlPoints]
        /\ status \in [Threads -> Status]
        /\ tries \in [Threads -> 0 .. Attempts - 1]
    BY DEF ControlPoints, Status, HardwareStatus
  <2>. QED
    BY <2>1, <2>2, <2>3, <2>4, <2>5 DEF TypeOK
<1>2. SetupInv
  BY DEF SetupInv, InTransaction
<1>3. CounterMatchesMutex
  BY DEF CounterMatchesMutex
<1>4. ASSUME NEW t \in Threads PROVE PositionInv(t)
  BY DEF PositionInv, InTransaction, OpenBlocks, HeldBy
<1>5. ASSUME NEW t \in Threads PROVE SpeculationInv(t)
  BY DEF SpeculationInv, Speculating, InTransaction
<1>. QED
  BY <1>1, <1>2, <1>3, <1>4, <1>5 DEF ControlInv


\* Rolling back transactions keeps everybody's place in order, whatever else t
\* does; t itself is spoken for only when it is rolled back.
LEMMA RollBackControl ==
  ASSUME ControlInv, NEW t \in Threads,
         NEW V \in SUBSET {u \in Threads : InTransaction(u)},
         NEW verdict \in [V -> Status], NEW p \in ControlPoints,
         RollBack(V, verdict, t, p),
         UNCHANGED <<once, supported, owner, holds>>
  PROVE  /\ p \notin {"init", "xbegin", "check", "lock"} \/ t \in V => SetupInv'
         /\ \A u \in Threads : u \in V \/ u # t => PositionInv(u)'
         /\ \A u \in Threads : u \in watching' =>
              u \in watching /\ u \notin V /\ InTransaction(u)'
         /\ \A u \in Threads : u \in V \/ u # t =>
              (InTransaction(u)' /\ u \notin watching' => pc'[u] = "check")
<1> USE ConstantsAssumption
<1>1. /\ nest' \in [Threads -> 0 .. MaxDepth]
      /\ \A u \in V : nest'[u] = 0 /\ u \notin watching' /\ pc'[u] = "check"
      /\ \A u \in Threads \ V :
           /\ nest'[u] = nest[u]
           /\ u \in watching' <=> u \in watching
           /\ pc'[u] = IF u = t THEN p ELSE pc[u]
  BY RollBackEffect DEF ControlInv
<1>2. ASSUME p \notin {"init", "xbegin", "check", "lock"} \/ t \in V PROVE SetupInv'
  BY <1>1, <1>2 DEF ControlInv, TypeOK, SetupInv, InTransaction
<1>3. ASSUME NEW u \in Threads, u \in V \/ u # t PROVE PositionInv(u)'
  <2>1. CASE u \in V
    BY <1>1, <2>1 DEF ControlInv, TypeOK, PositionInv, InTransaction, OpenBlocks, HeldBy
  <2>2. CASE u \notin V /\ u # t
    BY <1>1, <2>2 DEF ControlInv, TypeOK, PositionInv, InTransaction, OpenBlocks, HeldBy
  <2>. QED
    BY <1>3, <2>1, <2>2
<1>4. ASSUME NEW u \in Threads, u \in watching'
      PROVE  u \in watching /\ u \notin V /\ InTransaction(u)'
  BY <1>1, <1>4 DEF ControlInv, SpeculationInv, InTransaction
<1>5. ASSUME NEW u \in Threads, u \in V \/ u # t, InTransaction(u)', u \notin watching'
      PROVE  pc'[u] = "check"
  BY <1>1, <1>5 DEF ControlInv, SpeculationInv, InTransaction
<1>. QED
  BY <1>2, <1>3, <1>4, <1>5

\* A step of t that rolls back the transactions it conflicts with.
LEMMA ConflictControl ==
  ASSUME ControlInv, NEW t \in Threads,
         NEW V \in SUBSET {u \in Threads \ {t} : InTransaction(u)},
         NEW verdict \in HardwareVerdicts(V), NEW p \in {"run", "unlock"},
         RollBack(V, verdict, t, p),
         UNCHANGED <<once, supported, owner, holds>>
  PROVE  /\ nest' \in [Threads -> 0 .. MaxDepth]
         /\ watching' \subseteq Threads
         /\ status' \in [Threads -> Status]
         /\ pc' \in [Threads -> ControlPoints]
         /\ nest'[t] = nest[t] /\ pc'[t] = p
         /\ \A u \in Threads \ {t} :
              pc'[u] \in {"count", "unlock"} <=> pc[u] \in {"count", "unlock"}
         /\ SetupInv'
         /\ \A u \in Threads \ {t} : PositionInv(u)'
         /\ \A u \in Threads :
              u \in watching' <=> u \in watching /\ u \notin V
         /\ \A u \in Threads : u \in watching' => InTransaction(u)'
         /\ \A u \in Threads \ {t} :
              InTransaction(u)' /\ u \notin watching' => pc'[u] = "check"
<1>1. /\ TypeOK /\ verdict \in [V -> Status] /\ p \in ControlPoints
      /\ p \notin {"init", "xbegin", "check", "lock"}
      /\ V \in SUBSET Threads /\ V \in SUBSET {u \in Threads : InTransaction(u)}
      /\ t \notin V
  BY VerdictsAreStatuses DEF ControlInv, ControlPoints
<1>2. /\ nest' \in [Threads -> 0 .. MaxDepth]
      /\ watching' \subseteq Threads
      /\ status' \in [Threads -> Status]
      /\ pc' \in [Threads -> ControlPoints]
      /\ \A u \in V : nest'[u] = 0 /\ u \notin watching' /\ pc'[u] = "check"
      /\ \A u \in Threads \ V :
           /\ nest'[u] = nest[u]
           /\ u \in watching' <=> u \in watching
           /\ pc'[u] = IF u = t THEN p ELSE pc[u]
  BY <1>1, RollBackEffect
<1>3. /\ SetupInv'
      /\ \A u \in Threads \ {t} : PositionInv(u)'
      /\ \A u \in Threads : u \in watching' => InTransaction(u)'
      /\ \A u \in Threads \ {t} :
           InTransaction(u)' /\ u \notin watching' => pc'[u] = "check"
  BY <1>1, RollBackControl
<1>4. \A u \in Threads \ {t} :
        pc'[u] \in {"count", "unlock"} <=> pc[u] \in {"count", "unlock"}
  BY <1>1, <1>2 DEF ControlInv, PositionInv
<1>. QED
  BY <1>1, <1>2, <1>3, <1>4

\* When only the transaction of t is rolled back, nothing else is disturbed.
LEMMA AbortOwnControl ==
  ASSUME ControlInv, NEW t \in Threads, InTransaction(t),
         NEW s \in Status, AbortOwn(t, s),
         UNCHANGED <<setup, lock, data, tries>>
  PROVE  ControlInv'
<1> USE ConstantsAssumption DEF setup, lock, data
<1> DEFINE V == {t}
           verdict == [u \in {t} |-> s]
<1>1. verdict \in [V -> Status]
  OBVIOUS
<1>2. RollBack(V, verdict, t, "check")
  BY DEF AbortOwn
<1>3. /\ V \in SUBSET {u \in Threads : InTransaction(u)}
      /\ t \in V /\ V \in SUBSET Threads
      /\ \A u \in Threads \ {t} : u \in Threads \ V
      /\ "check" \in ControlPoints
  BY DEF ControlPoints
<1> HIDE DEF V, verdict
<1>4. /\ SetupInv'
      /\ \A u \in Threads : PositionInv(u)'
      /\ \A u \in watching' : u \in Threads => u \in watching /\ InTransaction(u)'
      /\ \A u \in Threads : InTransaction(u)' /\ u \notin watching' => pc'[u] = "check"
  BY <1>1, <1>2, <1>3, RollBackControl
<1>5. /\ nest' \in [Threads -> 0 .. MaxDepth] /\ watching' \subseteq Threads
      /\ status' \in [Threads -> Status] /\ pc' \in [Threads -> ControlPoints]
      /\ \A u \in Threads \ {t} : pc'[u] = pc[u]
      /\ pc'[t] = "check"
  <2>1. TypeOK
    BY DEF ControlInv
  <2>. QED
    BY <1>1, <1>2, <1>3, <2>1, RollBackEffect
<1>6. TypeOK'
  <2>1. /\ seen' \in [Threads -> [Locs -> Vals \cup {None}]]
        /\ buf' \in [Threads -> [Locs -> Vals \cup {None}]]
    BY LogsTyped DEF AbortOwn, ControlInv, TypeOK
  <2>. QED
    BY <1>5, <2>1 DEF ControlInv, TypeOK
<1>7. CounterMatchesMutex'
  <2>1. pc[t] \notin {"count", "unlock"}
    BY DEF ControlInv, PositionInv
  <2>. QED
    BY <1>5, <2>1 DEF ControlInv, TypeOK, CounterMatchesMutex
<1>8. ASSUME NEW u \in Threads PROVE SpeculationInv(u)'
  BY <1>4 DEF ControlInv, SpeculationInv
<1>. QED
  BY <1>4, <1>6, <1>7, <1>8 DEF ControlInv

\* Every step of the runtime keeps the control in order, one part per action.
LEMMA ControlStep ==
  ASSUME ControlInv, [Next]_vars
  PROVE  ControlInv'
<1> USE ConstantsAssumption DEF setup, lock, data, hardware
<1>0. CASE UNCHANGED vars
  BY <1>0 DEF ControlInv, TypeOK, SetupInv, CounterMatchesMutex, PositionInv,
     SpeculationInv, Speculating, InTransaction, OpenBlocks, HeldBy, vars
<1> SUFFICES ASSUME NEW t \in Threads,
                    Runtime(t) \/ Program(t) \/ HardwareAbort(t)
             PROVE  ControlInv'
  BY <1>0 DEF Next
<1>a. /\ TypeOK /\ SetupInv /\ CounterMatchesMutex
      /\ \A u \in Threads : PositionInv(u) /\ SpeculationInv(u)
  BY DEF ControlInv
<1> USE <1>a
<1>1. CASE Begin(t)
  <2> USE <1>1 DEF Begin
  <2>1. TypeOK'
    BY DEF TypeOK, ControlPoints
  <2>2. SetupInv'
    BY DEF TypeOK, SetupInv, InTransaction
  <2>3. CounterMatchesMutex'
    BY DEF TypeOK, CounterMatchesMutex, PositionInv, InTransaction
  <2>4. ASSUME NEW u \in Threads PROVE PositionInv(u)'
    BY DEF TypeOK, SetupInv, PositionInv, InTransaction, OpenBlocks, HeldBy
  <2>5. ASSUME NEW u \in Threads PROVE SpeculationInv(u)'
    BY DEF TypeOK, PositionInv, SpeculationInv, Speculating, InTransaction
  <2>. QED
    BY <2>1, <2>2, <2>3, <2>4, <2>5 DEF ControlInv
<1>2. CASE call_once(t)
  <2> USE <1>2 DEF call_once, AfterOnce
  <2>1. TypeOK'
    <3>1. pc' \in [Threads -> ControlPoints]
      BY DEF TypeOK, ControlPoints
    <3>2. tries' \in [Threads -> 0 .. Attempts - 1]
      BY DEF TypeOK
    <3>. QED
      BY <3>1, <3>2 DEF TypeOK
  <2>2. SetupInv'
    BY DEF TypeOK, SetupInv, InTransaction
  <2>3. CounterMatchesMutex'
    BY DEF TypeOK, CounterMatchesMutex, PositionInv, InTransaction
  <2>4. ASSUME NEW u \in Threads PROVE PositionInv(u)'
    BY DEF TypeOK, SetupInv, PositionInv, InTransaction, OpenBlocks, HeldBy
  <2>5. ASSUME NEW u \in Threads PROVE SpeculationInv(u)'
    BY DEF TypeOK, PositionInv, SpeculationInv, Speculating, InTransaction
  <2>. QED
    BY <2>1, <2>2, <2>3, <2>4, <2>5 DEF ControlInv
<1>3. CASE three_transaction_initialize(t)
  <2> USE <1>3 DEF three_transaction_initialize, AfterOnce
  <2>0. owner = None /\ holds = 0 /\ UNCHANGED <<owner, holds>>
    BY DEF mtx_init, SetupInv, CounterMatchesMutex
  <2> USE <2>0
  <2>1. TypeOK'
    BY DEF TypeOK, ControlPoints
  <2>2. SetupInv'
    BY DEF TypeOK, SetupInv, InTransaction
  <2>3. CounterMatchesMutex'
    BY DEF TypeOK, CounterMatchesMutex, PositionInv, InTransaction
  <2>4. ASSUME NEW u \in Threads PROVE PositionInv(u)'
    BY DEF TypeOK, SetupInv, PositionInv, InTransaction, OpenBlocks, HeldBy
  <2>5. ASSUME NEW u \in Threads PROVE SpeculationInv(u)'
    BY DEF TypeOK, PositionInv, SpeculationInv, Speculating, InTransaction
  <2>. QED
    BY <2>1, <2>2, <2>3, <2>4, <2>5 DEF ControlInv
<1>4. CASE xbegin(t)
  <2> USE <1>4 DEF xbegin
  <2>1. TypeOK'
    <3>1. nest[t] + 1 \in 0 .. MaxDepth
      BY DEF TypeOK, PositionInv, OpenBlocks, HeldBy
    <3>2. nest' \in [Threads -> 0 .. MaxDepth]
      BY <3>1 DEF TypeOK
    <3>3. pc' \in [Threads -> ControlPoints] /\ status' \in [Threads -> Status]
      BY DEF TypeOK, ControlPoints, Status
    <3>. QED
      BY <3>2, <3>3 DEF TypeOK
  <2>2. SetupInv'
    BY DEF TypeOK, SetupInv, InTransaction
  <2>3. CounterMatchesMutex'
    BY DEF TypeOK, CounterMatchesMutex, PositionInv, InTransaction
  <2>4. ASSUME NEW u \in Threads PROVE PositionInv(u)'
    BY DEF TypeOK, SetupInv, PositionInv, InTransaction, OpenBlocks, HeldBy
  <2>5. ASSUME NEW u \in Threads PROVE SpeculationInv(u)'
    BY DEF TypeOK, PositionInv, SpeculationInv, Speculating, InTransaction
  <2>. QED
    BY <2>1, <2>2, <2>3, <2>4, <2>5 DEF ControlInv
<1>5. CASE Dispatch(t)
  <2> USE <1>5 DEF Dispatch
  <2>1. TypeOK'
    <3>1. pc' \in [Threads -> ControlPoints] /\ status' \in [Threads -> Status]
      BY DEF TypeOK, ControlPoints, Status
    <3>2. CASE tries' = [tries EXCEPT ![t] = 0]
      BY <3>1, <3>2 DEF TypeOK
    <3>3. CASE tries' = [tries EXCEPT ![t] = tries[t] + 1] /\ tries[t] + 1 < Attempts
      <4>1. tries[t] + 1 \in 0 .. Attempts - 1
        BY <3>3 DEF TypeOK
      <4>. QED
        BY <3>1, <3>3, <4>1 DEF TypeOK
    <3>. QED
      BY <3>2, <3>3
  <2>2. SetupInv'
    BY DEF TypeOK, SetupInv, InTransaction
  <2>3. CounterMatchesMutex'
    BY DEF TypeOK, CounterMatchesMutex, PositionInv, InTransaction
  <2>4. ASSUME NEW u \in Threads PROVE PositionInv(u)'
    BY DEF TypeOK, SetupInv, PositionInv, InTransaction, OpenBlocks, HeldBy
  <2>5. ASSUME NEW u \in Threads PROVE SpeculationInv(u)'
    BY DEF TypeOK, PositionInv, SpeculationInv, Speculating, InTransaction
  <2>. QED
    BY <2>1, <2>2, <2>3, <2>4, <2>5 DEF ControlInv
<1>6. CASE mtx_lock(t)
  <2> USE <1>6 DEF mtx_lock
  <2>0. /\ ~InTransaction(t)
        /\ holds + 1 \in 1 .. MaxDepth
        /\ owner = None => holds = 0
    BY DEF TypeOK, CounterMatchesMutex, PositionInv, OpenBlocks, HeldBy, InTransaction
  <2>1. TypeOK'
    <3>1. pc' \in [Threads -> ControlPoints]
      BY DEF TypeOK, ControlPoints
    <3>. QED
      BY <2>0, <3>1 DEF TypeOK
  <2>2. SetupInv'
    BY DEF TypeOK, SetupInv, InTransaction
  <2>3. CounterMatchesMutex'
    BY DEF TypeOK, CounterMatchesMutex, PositionInv, InTransaction
  <2>4. ASSUME NEW u \in Threads PROVE PositionInv(u)'
    BY <2>0 DEF TypeOK, PositionInv, InTransaction, OpenBlocks, HeldBy
  <2>5. ASSUME NEW u \in Threads PROVE SpeculationInv(u)'
    BY DEF TypeOK, PositionInv, SpeculationInv, Speculating, InTransaction
  <2>. QED
    BY <2>1, <2>2, <2>3, <2>4, <2>5 DEF ControlInv
<1>7. CASE mtx_unlock(t)
  <2> USE <1>7 DEF mtx_unlock
  <2>0. /\ owner = t /\ ~InTransaction(t)
        /\ holds \in 1 .. MaxDepth
    BY DEF TypeOK, CounterMatchesMutex, PositionInv
  <2>1. TypeOK'
    <3>1. pc' \in [Threads -> ControlPoints]
      BY DEF TypeOK, ControlPoints
    <3>. QED
      BY <2>0, <3>1 DEF TypeOK
  <2>2. SetupInv'
    BY DEF TypeOK, SetupInv, InTransaction
  <2>3. CounterMatchesMutex'
    BY DEF TypeOK, CounterMatchesMutex, PositionInv, InTransaction
  <2>4. ASSUME NEW u \in Threads PROVE PositionInv(u)'
    BY <2>0 DEF TypeOK, PositionInv, InTransaction, OpenBlocks, HeldBy
  <2>5. ASSUME NEW u \in Threads PROVE SpeculationInv(u)'
    BY DEF TypeOK, PositionInv, SpeculationInv, Speculating, InTransaction
  <2>. QED
    BY <2>1, <2>2, <2>3, <2>4, <2>5 DEF ControlInv
<1>8. CASE HardwareAbort(t)
  BY <1>8, AbortOwnControl DEF HardwareAbort, Status
<1>9. CASE three_transaction_abort(t)
  BY <1>9, AbortOwnControl DEF three_transaction_abort, Status
<1>10. CASE CheckStarted(t)
  <2> USE <1>10 DEF CheckStarted
  <2>1. CASE count > 0
    BY <2>1, AbortOwnControl DEF Status
  <2>2. CASE ~(count > 0)
    <3> USE <2>2
    <3>1. TypeOK'
      BY DEF TypeOK, ControlPoints
    <3>2. SetupInv'
      BY DEF TypeOK, SetupInv, InTransaction
    <3>3. CounterMatchesMutex'
      BY DEF TypeOK, CounterMatchesMutex, PositionInv, InTransaction
    <3>4. ASSUME NEW u \in Threads PROVE PositionInv(u)'
      BY DEF TypeOK, PositionInv, InTransaction, OpenBlocks, HeldBy
    <3>5. ASSUME NEW u \in Threads PROVE SpeculationInv(u)'
      BY DEF TypeOK, SpeculationInv, InTransaction
    <3>. QED
      BY <3>1, <3>2, <3>3, <3>4, <3>5 DEF ControlInv
  <2>. QED
    BY <2>1, <2>2
<1>11. CASE xend(t)
  <2> USE <1>11 DEF xend
  <2>1. TypeOK'
    <3>1. nest' \in [Threads -> 0 .. MaxDepth]
      BY DEF TypeOK, InTransaction
    <3>2. CASE nest[t] = 1
      <4>1. /\ seen' \in [Threads -> [Locs -> Vals \cup {None}]]
            /\ buf' \in [Threads -> [Locs -> Vals \cup {None}]]
        <5>1. seen' = AB!Forget(seen, {t}) /\ buf' = AB!Forget(buf, {t})
          BY <3>2 DEF Complete
        <5>. QED
          BY <5>1, LogsTyped DEF TypeOK
      <4>2. mem' \in [Locs -> Vals] /\ committed' \in [Locs -> Vals]
        <5>1. mem' = AB!Overlay(mem, buf[t]) /\ committed' = AB!Overlay(committed, buf[t])
          BY <3>2 DEF Complete
        <5>2. buf[t] \in [Locs -> Vals \cup {None}]
          BY DEF TypeOK
        <5>. QED
          BY <5>1, <5>2, OverlayTyped DEF TypeOK
      <4>. QED
        BY <3>1, <3>2, <4>1, <4>2 DEF TypeOK
    <3>3. CASE nest[t] # 1
      BY <3>1, <3>3 DEF TypeOK
    <3>. QED
      BY <3>2, <3>3
  <2>2. SetupInv'
    BY DEF TypeOK, SetupInv, InTransaction
  <2>3. CounterMatchesMutex'
    BY DEF TypeOK, CounterMatchesMutex
  <2>4. ASSUME NEW u \in Threads PROVE PositionInv(u)'
    BY DEF TypeOK, PositionInv, InTransaction, OpenBlocks, HeldBy
  <2>5. ASSUME NEW u \in Threads PROVE SpeculationInv(u)'
    BY DEF TypeOK, SpeculationInv, InTransaction
  <2>. QED
    BY <2>1, <2>2, <2>3, <2>4, <2>5 DEF ControlInv
<1>12. CASE CountUp(t)
  <2> DEFINE V == CountConflicts(t)
  <2>0. PICK verdict \in HardwareVerdicts(V) : RollBack(V, verdict, t, "run")
    BY <1>12 DEF CountUp
  <2>1. /\ V \in SUBSET {u \in Threads \ {t} : InTransaction(u)}
        /\ UNCHANGED <<once, supported, owner, holds>>
    BY <1>12, ConflictsAreOthers DEF CountUp
  <2> HIDE DEF V
  <2>2. /\ nest' \in [Threads -> 0 .. MaxDepth]
        /\ watching' \subseteq Threads
        /\ status' \in [Threads -> Status]
        /\ pc' \in [Threads -> ControlPoints]
        /\ nest'[t] = nest[t] /\ pc'[t] = "run"
        /\ \A u \in Threads \ {t} :
             pc'[u] \in {"count", "unlock"} <=> pc[u] \in {"count", "unlock"}
        /\ SetupInv'
        /\ \A u \in Threads \ {t} : PositionInv(u)'
        /\ \A u \in Threads :
             u \in watching' <=> u \in watching /\ u \notin V
        /\ \A u \in Threads : u \in watching' => InTransaction(u)'
        /\ \A u \in Threads \ {t} :
             InTransaction(u)' /\ u \notin watching' => pc'[u] = "check"
    BY <2>0, <2>1, ConflictControl, "run" \in {"run", "unlock"}
  <2>3. /\ owner = t /\ holds \in 1 .. MaxDepth /\ count = holds - 1
        /\ count' = holds
    <3>1. owner = t /\ owner # None /\ holds # 0 /\ count = holds - 1
      BY <1>12 DEF CountUp, TypeOK, CounterMatchesMutex, PositionInv
    <3>2. holds \in 1 .. MaxDepth /\ holds \in 0 .. UIntSize - 1
      BY <3>1 DEF TypeOK
    <3>. QED
      BY <1>12, <3>1, <3>2, SmallModulo DEF CountUp
  <2>4. ~InTransaction(t)
    BY <1>12 DEF CountUp, PositionInv
  <2>5. TypeOK'
    <3>1. /\ seen' \in [Threads -> [Locs -> Vals \cup {None}]]
          /\ buf' \in [Threads -> [Locs -> Vals \cup {None}]]
      BY <1>12, LogsTyped DEF CountUp, TypeOK
    <3>. QED
      BY <1>12, <2>2, <2>3, <3>1 DEF CountUp, TypeOK
  <2>6. CounterMatchesMutex'
    BY <2>1, <2>2, <2>3 DEF TypeOK, CounterMatchesMutex
  <2>7. PositionInv(t)'
    BY <1>12, <2>1, <2>2, <2>4 DEF TypeOK, PositionInv, InTransaction, OpenBlocks, HeldBy
  <2>8. ASSUME NEW u \in Threads PROVE SpeculationInv(u)'
    <3>1. u \notin watching'
      BY <2>2, <2>4 DEF CountConflicts, SpeculationInv, V
    <3>2. ~InTransaction(t)'
      BY <2>2, <2>4 DEF InTransaction
    <3>. QED
      BY <2>2, <3>1, <3>2 DEF SpeculationInv
  <2>. QED
    BY <2>2, <2>5, <2>6, <2>7, <2>8 DEF ControlInv
<1>13. CASE CountDown(t)
  <2> DEFINE V == CountConflicts(t)
  <2>0. PICK verdict \in HardwareVerdicts(V) : RollBack(V, verdict, t, "unlock")
    BY <1>13 DEF CountDown
  <2>1. /\ V \in SUBSET {u \in Threads \ {t} : InTransaction(u)}
        /\ UNCHANGED <<once, supported, owner, holds>>
    BY <1>13, ConflictsAreOthers DEF CountDown
  <2> HIDE DEF V
  <2>2. /\ nest' \in [Threads -> 0 .. MaxDepth]
        /\ watching' \subseteq Threads
        /\ status' \in [Threads -> Status]
        /\ pc' \in [Threads -> ControlPoints]
        /\ nest'[t] = nest[t] /\ pc'[t] = "unlock"
        /\ \A u \in Threads \ {t} :
             pc'[u] \in {"count", "unlock"} <=> pc[u] \in {"count", "unlock"}
        /\ SetupInv'
        /\ \A u \in Threads \ {t} : PositionInv(u)'
        /\ \A u \in Threads :
             u \in watching' <=> u \in watching /\ u \notin V
        /\ \A u \in Threads : u \in watching' => InTransaction(u)'
        /\ \A u \in Threads \ {t} :
             InTransaction(u)' /\ u \notin watching' => pc'[u] = "check"
    BY <2>0, <2>1, ConflictControl, "unlock" \in {"run", "unlock"}
  <2>3. /\ owner = t /\ holds \in 1 .. MaxDepth /\ count = holds
        /\ count' = holds - 1
    <3>1. owner = t /\ owner # None /\ holds # 0 /\ count = holds
      BY <1>13 DEF CountDown, InBlock, InTransaction, OpenBlocks, HeldBy, TypeOK, CounterMatchesMutex
    <3>2. holds \in 1 .. MaxDepth /\ holds - 1 \in 0 .. UIntSize - 1
      BY <3>1 DEF TypeOK
    <3>. QED
      BY <1>13, <3>1, <3>2, SmallModulo DEF CountDown
  <2>4. ~InTransaction(t)
    BY <1>13 DEF CountDown
  <2>5. TypeOK'
    <3>1. /\ seen' \in [Threads -> [Locs -> Vals \cup {None}]]
          /\ buf' \in [Threads -> [Locs -> Vals \cup {None}]]
      <4>1. PICK W : \/ seen' = AB!Forget(seen, W) /\ buf' = AB!Forget(buf, W)
                     \/ seen' = Undone(seen, W) /\ buf' = Undone(buf, W)
        BY <1>13 DEF CountDown
      <4>2. /\ seen \in [Threads -> [Locs -> Vals \cup {None}]]
            /\ buf \in [Threads -> [Locs -> Vals \cup {None}]]
        BY DEF TypeOK
      <4>. QED
        BY <4>1, <4>2, LogsTyped
    <3>2. buf[t] \in [Locs -> Vals \cup {None}]
      BY DEF TypeOK
    <3>3. committed' \in [Locs -> Vals]
      BY <1>13, <3>2, OverlayTyped DEF CountDown, TypeOK
    <3>. QED
      BY <1>13, <2>2, <2>3, <3>1, <3>3 DEF CountDown, TypeOK
  <2>6. CounterMatchesMutex'
    BY <2>1, <2>2, <2>3 DEF TypeOK, CounterMatchesMutex
  <2>7. PositionInv(t)'
    BY <1>13, <2>1, <2>2, <2>3, <2>4 DEF TypeOK, PositionInv, InTransaction, OpenBlocks, HeldBy
  <2>8. ASSUME NEW u \in Threads PROVE SpeculationInv(u)'
    <3>1. u \notin watching'
      BY <2>2, <2>4 DEF CountConflicts, SpeculationInv, V
    <3>2. ~InTransaction(t)'
      BY <2>2, <2>4 DEF InTransaction
    <3>. QED
      BY <2>2, <3>1, <3>2 DEF SpeculationInv
  <2>. QED
    BY <2>2, <2>5, <2>6, <2>7, <2>8 DEF ControlInv
<1>14. ASSUME NEW x \in Locs, Read(t, x) PROVE ControlInv'
  <2> DEFINE V == ReadConflicts(t, x)
  <2>0. PICK verdict \in HardwareVerdicts(V) : RollBack(V, verdict, t, "run")
    BY <1>14 DEF Read
  <2>1. /\ V \in SUBSET {u \in Threads \ {t} : InTransaction(u)}
        /\ UNCHANGED <<once, supported, owner, holds>>
    BY <1>14, ConflictsAreOthers DEF Read
  <2> HIDE DEF V
  <2>2. /\ nest' \in [Threads -> 0 .. MaxDepth]
        /\ watching' \subseteq Threads
        /\ status' \in [Threads -> Status]
        /\ pc' \in [Threads -> ControlPoints]
        /\ nest'[t] = nest[t] /\ pc'[t] = "run"
        /\ \A u \in Threads \ {t} :
             pc'[u] \in {"count", "unlock"} <=> pc[u] \in {"count", "unlock"}
        /\ SetupInv'
        /\ \A u \in Threads \ {t} : PositionInv(u)'
        /\ \A u \in Threads :
             u \in watching' <=> u \in watching /\ u \notin V
        /\ \A u \in Threads : u \in watching' => InTransaction(u)'
        /\ \A u \in Threads \ {t} :
             InTransaction(u)' /\ u \notin watching' => pc'[u] = "check"
    BY <2>0, <2>1, ConflictControl, "run" \in {"run", "unlock"}
  <2>3. OpenBlocks(t)' = OpenBlocks(t) /\ pc[t] = "run" /\ count' = count
    BY <1>14, <2>1, <2>2 DEF Read, InBlock, OpenBlocks, HeldBy
  <2>5. TypeOK'
    <3>1. /\ seen' \in [Threads -> [Locs -> Vals \cup {None}]]
          /\ buf' \in [Threads -> [Locs -> Vals \cup {None}]]
      BY <1>14, LogsTyped DEF Read, TypeOK
    <3>2. mem' \in [Locs -> Vals] /\ committed' \in [Locs -> Vals]
      BY <1>14 DEF Read, TypeOK
    <3>3. tries' \in [Threads -> 0 .. Attempts - 1]
      BY <1>14 DEF Read, TypeOK
    <3>. QED
      BY <2>1, <2>2, <2>3, <3>1, <3>2, <3>3 DEF TypeOK
  <2>6. CounterMatchesMutex'
    BY <2>1, <2>2, <2>3 DEF TypeOK, CounterMatchesMutex, PositionInv
  <2>7. PositionInv(t)'
    BY <1>14, <2>2, <2>3 DEF PositionInv
  <2>8. ASSUME NEW u \in Threads PROVE SpeculationInv(u)'
    <3>1. u \in watching' => u \in watching /\ InTransaction(u)'
      BY <2>2
    <3>2. InTransaction(t)' /\ t \notin watching' => FALSE
      BY <2>1, <2>2, <2>3 DEF InTransaction, SpeculationInv
    <3>. QED
      BY <2>2, <2>3, <3>1, <3>2 DEF SpeculationInv
  <2>. QED
    BY <2>2, <2>5, <2>6, <2>7, <2>8 DEF ControlInv
<1>15. ASSUME NEW x \in Locs, NEW v \in Vals, Write(t, x, v) PROVE ControlInv'
  <2> DEFINE V == WriteConflicts(t, x)
  <2>0. PICK verdict \in HardwareVerdicts(V) : RollBack(V, verdict, t, "run")
    BY <1>15 DEF Write
  <2>1. /\ V \in SUBSET {u \in Threads \ {t} : InTransaction(u)}
        /\ UNCHANGED <<once, supported, owner, holds>>
    BY <1>15, ConflictsAreOthers DEF Write
  <2> HIDE DEF V
  <2>2. /\ nest' \in [Threads -> 0 .. MaxDepth]
        /\ watching' \subseteq Threads
        /\ status' \in [Threads -> Status]
        /\ pc' \in [Threads -> ControlPoints]
        /\ nest'[t] = nest[t] /\ pc'[t] = "run"
        /\ \A u \in Threads \ {t} :
             pc'[u] \in {"count", "unlock"} <=> pc[u] \in {"count", "unlock"}
        /\ SetupInv'
        /\ \A u \in Threads \ {t} : PositionInv(u)'
        /\ \A u \in Threads :
             u \in watching' <=> u \in watching /\ u \notin V
        /\ \A u \in Threads : u \in watching' => InTransaction(u)'
        /\ \A u \in Threads \ {t} :
             InTransaction(u)' /\ u \notin watching' => pc'[u] = "check"
    BY <2>0, <2>1, ConflictControl, "run" \in {"run", "unlock"}
  <2>3. OpenBlocks(t)' = OpenBlocks(t) /\ pc[t] = "run" /\ count' = count
    BY <1>15, <2>1, <2>2 DEF Write, InBlock, OpenBlocks, HeldBy
  <2>5. TypeOK'
    <3>1. /\ seen' \in [Threads -> [Locs -> Vals \cup {None}]]
          /\ buf' \in [Threads -> [Locs -> Vals \cup {None}]]
      BY <1>15, LogsTyped DEF Write, TypeOK
    <3>2. mem' \in [Locs -> Vals] /\ committed' \in [Locs -> Vals]
      BY <1>15 DEF Write, TypeOK
    <3>3. tries' \in [Threads -> 0 .. Attempts - 1]
      BY <1>15 DEF Write, TypeOK
    <3>. QED
      BY <2>1, <2>2, <2>3, <3>1, <3>2, <3>3 DEF TypeOK
  <2>6. CounterMatchesMutex'
    BY <2>1, <2>2, <2>3 DEF TypeOK, CounterMatchesMutex, PositionInv
  <2>7. PositionInv(t)'
    BY <1>15, <2>2, <2>3 DEF PositionInv
  <2>8. ASSUME NEW u \in Threads PROVE SpeculationInv(u)'
    <3>1. u \in watching' => u \in watching /\ InTransaction(u)'
      BY <2>2
    <3>2. InTransaction(t)' /\ t \notin watching' => FALSE
      BY <2>1, <2>2, <2>3 DEF InTransaction, SpeculationInv
    <3>. QED
      BY <2>2, <2>3, <3>1, <3>2 DEF SpeculationInv
  <2>. QED
    BY <2>2, <2>5, <2>6, <2>7, <2>8 DEF ControlInv
<1>. QED
  BY <1>1, <1>2, <1>3, <1>4, <1>5, <1>6, <1>7, <1>8, <1>9, <1>10, <1>11, <1>12,
     <1>13, <1>14, <1>15, WrittenAssumption DEF Runtime, Program, End
-----------------------------------------------------------------------------
(* The two ways of running a block exclude each other. *)

\* No transaction past its check lives beside a fallback: it watches the counter,
\* which a fallback keeps above zero.
LEMMA Apart ==
  ASSUME ControlInv, NEW t \in Threads
  PROVE  /\ InFallback(t) =>
              watching = {} /\ \A u \in Threads : InFallback(u) => u = t
         /\ t \in watching => ~InFallback(t) /\ InTransaction(t) /\ owner # t
         /\ pc[t] = "run" /\ InTransaction(t) => t \in watching
         /\ InBlock(t) /\ ~InTransaction(t) => InFallback(t)
<1> USE ConstantsAssumption
<1>1. InFallback(t) => owner = t /\ count > 0
  BY DEF InFallback, ControlInv, TypeOK, CounterMatchesMutex
<1>2. InFallback(t) => watching = {} /\ \A u \in Threads : InFallback(u) => u = t
  BY <1>1 DEF ControlInv, TypeOK, SpeculationInv, InFallback
<1>3. t \in watching => InTransaction(t) /\ count = 0
  BY DEF ControlInv, SpeculationInv
<1>4. t \in watching => owner # t
  BY <1>3 DEF ControlInv, TypeOK, CounterMatchesMutex, PositionInv
<1>5. pc[t] = "run" /\ InTransaction(t) => t \in watching
  BY DEF ControlInv, SpeculationInv
<1>6. InBlock(t) /\ ~InTransaction(t) => InFallback(t)
  BY DEF ControlInv, TypeOK, InBlock, InFallback, InTransaction, OpenBlocks, HeldBy
<1>. QED
  BY <1>1, <1>2, <1>3, <1>4, <1>5, <1>6

-----------------------------------------------------------------------------
(* Data: the memory, the logs, and what completed blocks have left. *)

\* The runtime starts with its data in order.
LEMMA InitData == Init => DataInv
<1> SUFFICES ASSUME Init PROVE DataInv
  OBVIOUS
<1> USE ConstantsAssumption DEF Init
<1>1. \A t \in Threads : ~InFallback(t)
  BY DEF InFallback
<1>2. MemoryIsSerial
  BY <1>1 DEF MemoryIsSerial
<1>3. ConflictInv
  BY DEF ConflictInv, Speculating
<1>4. ASSUME NEW t \in Threads PROVE LogInv(t)
  BY DEF LogInv, AB!Untouched
<1>. QED
  BY <1>2, <1>3, <1>4 DEF DataInv

\* Steps that only move control keep the data in order.
LEMMA DataFrame ==
  ASSUME DataInv, UNCHANGED <<mem, committed, seen, buf, watching>>,
         \A u \in Threads : InFallback(u)' <=> InFallback(u)
  PROVE  DataInv'
<1>1. MemoryIsSerial'
  BY DEF DataInv, MemoryIsSerial, AB!Overlay
<1>2. ConflictInv'
  BY DEF DataInv, ConflictInv, Speculating
<1>3. ASSUME NEW u \in Threads PROVE LogInv(u)'
  BY DEF DataInv, LogInv, Speculating
<1>. QED
  BY <1>1, <1>2, <1>3 DEF DataInv

\* A rollback touches neither the mutex nor who is in its fallback.
LEMMA RollBackFallback ==
  ASSUME ControlInv, NEW t \in Threads,
         NEW V \in SUBSET {u \in Threads : InTransaction(u)},
         NEW verdict \in [V -> Status], NEW p \in ControlPoints,
         RollBack(V, verdict, t, p), UNCHANGED <<owner, holds>>
  PROVE  \A u \in Threads : u \in V \/ u # t => (InFallback(u)' <=> InFallback(u))
<1> SUFFICES ASSUME NEW u \in Threads, u \in V \/ u # t
             PROVE  InFallback(u)' <=> InFallback(u)
  OBVIOUS
<1>1. TypeOK /\ V \in SUBSET Threads
  BY DEF ControlInv
<1>2. /\ \A w \in V : pc'[w] = "check"
      /\ \A w \in Threads \ V : pc'[w] = IF w = t THEN p ELSE pc[w]
  BY <1>1, RollBackEffect
<1>3. u \in V => pc[u] \notin {"count", "unlock"}
  BY DEF ControlInv, PositionInv
<1>. QED
  BY <1>2, <1>3 DEF InFallback

\* A transaction that is rolled back on its own takes its logs with it.
LEMMA AbortOwnData ==
  ASSUME ControlInv, DataInv, NEW t \in Threads, InTransaction(t),
         NEW s \in Status, AbortOwn(t, s),
         UNCHANGED <<setup, lock, data, tries>>
  PROVE  DataInv'
<1> USE ConstantsAssumption DEF setup, lock, data
<1> DEFINE V == {t}
           verdict == [u \in {t} |-> s]
<1>1. /\ verdict \in [V -> Status]
      /\ RollBack(V, verdict, t, "check")
      /\ V \in SUBSET {u \in Threads : InTransaction(u)}
      /\ t \in V
      /\ "check" \in ControlPoints
  BY DEF AbortOwn, ControlPoints
<1> HIDE DEF V, verdict
<1>2. \A u \in Threads : InFallback(u)' <=> InFallback(u)
  BY <1>1, RollBackFallback
<1>3. /\ watching' = watching \ {t}
      /\ seen' = Undone(seen, {t}) /\ buf' = Undone(buf, {t})
  BY DEF AbortOwn, RollBack
<1>4. CASE owner = t
  <2>1. watching' = watching
    BY <1>3, <1>4, Apart
  <2>2. seen' = seen /\ buf' = buf
    BY <1>3, <1>4 DEF Undone, AB!Forget, ControlInv, TypeOK
  <2>. QED
    BY <1>2, <2>1, <2>2, DataFrame
<1>5. CASE owner # t
  <2>1. /\ seen'[t] = AB!Untouched /\ buf'[t] = AB!Untouched
        /\ \A u \in Threads \ {t} : seen'[u] = seen[u] /\ buf'[u] = buf[u]
    BY <1>3, <1>5 DEF Undone, AB!Forget, ControlInv, TypeOK
  <2>2. ~InFallback(t)
    BY <1>5 DEF InFallback
  <2>3. MemoryIsSerial'
    BY <1>2, <2>1, <2>2 DEF DataInv, MemoryIsSerial, AB!Overlay
  <2>4. ConflictInv'
    <3>1. \A a, b \in Threads : a \in watching' /\ b \in watching' =>
            /\ a \in watching /\ b \in watching
            /\ buf'[a] = buf[a] /\ buf'[b] = buf[b] /\ seen'[b] = seen[b]
      BY <1>3, <2>1
    <3>. QED
      BY <3>1 DEF DataInv, ConflictInv, Speculating
  <2>5. LogInv(t)'
    BY <2>1 DEF LogInv, AB!Untouched
  <2>6. ASSUME NEW u \in Threads \ {t} PROVE LogInv(u)'
    BY <1>2, <1>3, <2>1 DEF DataInv, LogInv, Speculating
  <2>. QED
    BY <2>3, <2>4, <2>5, <2>6 DEF DataInv
<1>. QED
  BY <1>4, <1>5

\* Every step of the runtime keeps the data in order, one part per action.
LEMMA DataStep ==
  ASSUME ControlInv, DataInv, [Next]_vars
  PROVE  DataInv'
<1> USE ConstantsAssumption DEF setup, lock, data, hardware
<1>0. CASE UNCHANGED vars
  BY <1>0, DataFrame DEF vars, InFallback
<1> SUFFICES ASSUME NEW t \in Threads,
                    Runtime(t) \/ Program(t) \/ HardwareAbort(t)
             PROVE  DataInv'
  BY <1>0 DEF Next
<1>a. TypeOK /\ CounterMatchesMutex
      /\ \A u \in Threads : PositionInv(u) /\ SpeculationInv(u)
  BY DEF ControlInv
<1>b. MemoryIsSerial /\ ConflictInv /\ \A u \in Threads : LogInv(u)
  BY DEF DataInv
<1>1. CASE Begin(t)
  <2>1. \A u \in Threads : InFallback(u)' <=> InFallback(u)
    BY <1>a, <1>1 DEF Begin, InFallback, TypeOK, CounterMatchesMutex, PositionInv
  <2>. QED
    BY <1>1, <2>1, DataFrame DEF Begin
<1>2. CASE call_once(t)
  <2>1. \A u \in Threads : InFallback(u)' <=> InFallback(u)
    BY <1>a, <1>2 DEF call_once, AfterOnce, InFallback, TypeOK, CounterMatchesMutex, PositionInv
  <2>. QED
    BY <1>2, <2>1, DataFrame DEF call_once, AfterOnce
<1>3. CASE three_transaction_initialize(t)
  <2>1. \A u \in Threads : InFallback(u)' <=> InFallback(u)
    <3>1. owner = None /\ UNCHANGED owner
      BY <1>3 DEF three_transaction_initialize, mtx_init, ControlInv, SetupInv
    <3>. QED
      BY <1>a, <3>1 DEF InFallback, TypeOK
  <2>. QED
    BY <1>3, <2>1, DataFrame DEF three_transaction_initialize, AfterOnce
<1>4. CASE xbegin(t)
  <2>1. \A u \in Threads : InFallback(u)' <=> InFallback(u)
    BY <1>a, <1>4 DEF xbegin, InFallback, TypeOK, CounterMatchesMutex, PositionInv
  <2>. QED
    BY <1>4, <2>1, DataFrame DEF xbegin
<1>5. CASE Dispatch(t)
  <2>1. \A u \in Threads : InFallback(u)' <=> InFallback(u)
    BY <1>a, <1>5 DEF Dispatch, InFallback, TypeOK, CounterMatchesMutex, PositionInv
  <2>. QED
    BY <1>5, <2>1, DataFrame DEF Dispatch
<1>6. CASE mtx_lock(t)
  <2>1. \A u \in Threads : InFallback(u)' <=> InFallback(u)
    BY <1>a, <1>6 DEF mtx_lock, InFallback, TypeOK, CounterMatchesMutex, PositionInv
  <2>. QED
    BY <1>6, <2>1, DataFrame DEF mtx_lock
<1>7. CASE mtx_unlock(t)
  <2>1. \A u \in Threads : InFallback(u)' <=> InFallback(u)
    BY <1>a, <1>7 DEF mtx_unlock, InFallback, TypeOK, CounterMatchesMutex, PositionInv
  <2>. QED
    BY <1>7, <2>1, DataFrame DEF mtx_unlock
<1>8. CASE HardwareAbort(t)
  BY <1>8, AbortOwnData DEF HardwareAbort, Status
<1>9. CASE three_transaction_abort(t)
  BY <1>9, AbortOwnData DEF three_transaction_abort, Status
<1>10. CASE CheckStarted(t)
  <2> USE <1>10 DEF CheckStarted
  <2>1. CASE count > 0
    BY <2>1, AbortOwnData DEF Status
  <2>2. CASE ~(count > 0)
    <3>1. /\ UNCHANGED <<mem, committed, seen, buf, owner, holds>>
          /\ watching' = watching \cup {t}
          /\ \A u \in Threads : pc'[u] = IF u = t THEN "run" ELSE pc[u]
      BY <1>a, <2>2 DEF TypeOK
    <3>2. \A u \in Threads : InFallback(u)' <=> InFallback(u)
      BY <1>a, <1>10, <3>1 DEF InFallback
    <3>3. t \notin watching => seen[t] = AB!Untouched /\ buf[t] = AB!Untouched
      <4>1. ~InFallback(t)
        BY <1>a, <2>2 DEF InFallback, TypeOK, CounterMatchesMutex
      <4>. QED
        BY <1>b, <4>1 DEF LogInv, Speculating
    <3>4. MemoryIsSerial'
      BY <1>b, <3>1, <3>2 DEF MemoryIsSerial, AB!Overlay
    <3>5. ConflictInv'
      BY <1>b, <3>1, <3>3 DEF ConflictInv, Speculating, AB!Untouched
    <3>6. ASSUME NEW u \in Threads PROVE LogInv(u)'
      BY <1>b, <3>1, <3>2 DEF LogInv, Speculating
    <3>. QED
      BY <3>4, <3>5, <3>6 DEF DataInv
  <2>. QED
    BY <2>1, <2>2
<1>11. CASE CountUp(t)
  <2> USE <1>11 DEF CountUp
  <2>1. owner = t /\ ~InTransaction(t) /\ t \notin watching
    BY <1>a DEF PositionInv, SpeculationInv
  <2>2. watching' = {}
    BY <1>a, <2>1 DEF RollBack, CountConflicts, TypeOK, SpeculationInv
  <2>3. \A u \in Threads \ {t} : ~InFallback(u) /\ ~InFallback(u)'
    BY <2>1 DEF InFallback
  <2>4. \A u \in Threads : u # t =>
          seen'[u] = AB!Untouched /\ buf'[u] = AB!Untouched
    <3>1. \A u \in Threads : u # t /\ u \notin CountConflicts(t) =>
            seen[u] = AB!Untouched /\ buf[u] = AB!Untouched
      BY <1>a, <1>b, <2>3 DEF LogInv, Speculating, CountConflicts, SpeculationInv
    <3>. QED
      BY <2>1, <3>1 DEF Undone, AB!Forget
  <2>5. seen'[t] = seen[t] /\ buf'[t] = buf[t]
    BY <1>a DEF Undone, AB!Forget, TypeOK, CountConflicts
  <2>6. mem = AB!Overlay(committed, buf[t])
    <3>1. CASE InFallback(t)
      BY <1>b, <3>1 DEF MemoryIsSerial
    <3>2. CASE ~InFallback(t)
      <4>1. buf[t] = AB!Untouched
        BY <1>b, <2>1, <3>2 DEF LogInv, Speculating
      <4>2. mem = committed
        BY <1>b, <2>3, <3>2 DEF MemoryIsSerial
      <4>. QED
        BY <1>a, <4>1, <4>2 DEF AB!Overlay, AB!Untouched, TypeOK
    <3>. QED
      BY <3>1, <3>2
  <2>7. InFallback(t)'
    BY <1>a, <2>1 DEF InFallback, RollBack, CountConflicts, TypeOK, CounterMatchesMutex
  <2>8. MemoryIsSerial'
    BY <2>3, <2>5, <2>6, <2>7 DEF MemoryIsSerial, AB!Overlay
  <2>9. ConflictInv'
    BY <2>2 DEF ConflictInv, Speculating
  <2>10. LogInv(t)'
    BY <1>b, <2>5, <2>7 DEF LogInv
  <2>11. ASSUME NEW u \in Threads \ {t} PROVE LogInv(u)'
    BY <2>4 DEF LogInv, AB!Untouched
  <2>. QED
    BY <2>8, <2>9, <2>10, <2>11 DEF DataInv
<1>12. CASE CountDown(t)
  <2> USE <1>12 DEF CountDown
  <2>1. /\ InFallback(t) /\ owner = t /\ watching = {}
        /\ \A u \in Threads \ {t} : ~InFallback(u) /\ ~InFallback(u)'
    BY Apart DEF InFallback
  <2>2. CountConflicts(t) = {}
    BY <2>1 DEF CountConflicts
  <2>3. watching' = watching /\ pc'[t] = "unlock"
    BY <1>a, <2>2 DEF RollBack, TypeOK
  <2>4. CASE holds = 1
    <3>1. /\ committed' = AB!Overlay(committed, buf[t]) /\ mem' = mem
          /\ \A u \in Threads : u # t => seen'[u] = seen[u] /\ buf'[u] = buf[u]
          /\ seen'[t] = AB!Untouched /\ buf'[t] = AB!Untouched
      BY <1>a, <2>2, <2>4 DEF AB!Forget, TypeOK
    <3>2. \A u \in Threads : ~InFallback(u)'
      BY <2>1, <2>3, <2>4 DEF InFallback
    <3>3. MemoryIsSerial'
      BY <1>b, <2>1, <3>1, <3>2 DEF MemoryIsSerial
    <3>4. ConflictInv'
      BY <2>1, <2>3 DEF ConflictInv, Speculating
    <3>5. LogInv(t)'
      BY <3>1 DEF LogInv, AB!Untouched
    <3>6. ASSUME NEW u \in Threads \ {t} PROVE LogInv(u)'
      <4>1. seen[u] = AB!Untouched /\ buf[u] = AB!Untouched
        BY <1>b, <2>1 DEF LogInv, Speculating
      <4>. QED
        BY <3>1, <4>1 DEF LogInv, AB!Untouched
    <3>. QED
      BY <3>3, <3>4, <3>5, <3>6 DEF DataInv
  <2>5. CASE holds # 1
    <3>1. InFallback(t)'
      BY <2>1, <2>5 DEF InFallback
    <3>2. seen' = seen /\ buf' = buf
      BY <1>a, <2>2, <2>5 DEF Undone, AB!Forget, TypeOK
    <3>. QED
      BY <2>1, <2>3, <2>5, <3>1, <3>2, DataFrame
  <2>. QED
    BY <2>4, <2>5
<1>13. CASE xend(t)
  <2> USE <1>13 DEF xend
  <2>1. /\ t \in watching
        /\ \A u \in Threads : ~InFallback(u) /\ ~InFallback(u)'
    <3>1. t \in watching
      BY Apart
    <3>2. \A u \in Threads : ~InFallback(u)
      BY <3>1, Apart
    <3>. QED
      BY <3>1, <3>2 DEF InFallback
  <2>2. CASE nest[t] = 1
    <3>1. /\ committed' = AB!Overlay(committed, buf[t])
          /\ mem' = AB!Overlay(mem, buf[t])
          /\ watching' = watching \ {t}
          /\ \A u \in Threads : u # t => seen'[u] = seen[u] /\ buf'[u] = buf[u]
          /\ seen'[t] = AB!Untouched /\ buf'[t] = AB!Untouched
      BY <1>a, <2>2 DEF Complete, AB!Forget, TypeOK
    <3>2. MemoryIsSerial'
      BY <1>b, <2>1, <3>1 DEF MemoryIsSerial
    <3>3. ConflictInv'
      BY <1>b, <3>1 DEF ConflictInv, Speculating
    <3>4. LogInv(t)'
      BY <3>1 DEF LogInv, AB!Untouched
    <3>5. ASSUME NEW u \in Threads \ {t} PROVE LogInv(u)'
      <4>1. CASE u \in watching
        BY <1>b, <2>1, <3>1, <4>1 DEF LogInv, ConflictInv, Speculating, AB!Overlay
      <4>2. CASE u \notin watching
        <5>1. seen[u] = AB!Untouched /\ buf[u] = AB!Untouched
          BY <1>b, <2>1, <4>2 DEF LogInv, Speculating
        <5>. QED
          BY <3>1, <5>1 DEF LogInv, AB!Untouched
      <4>. QED
        BY <4>1, <4>2
    <3>. QED
      BY <3>2, <3>3, <3>4, <3>5 DEF DataInv
  <2>3. CASE nest[t] # 1
    BY <2>1, <2>3, DataFrame
  <2>. QED
    BY <2>2, <2>3
<1>14. ASSUME NEW x \in Locs, Read(t, x) PROVE DataInv'
  <2> DEFINE V == ReadConflicts(t, x)
  <2>1. PICK verdict \in HardwareVerdicts(V) : RollBack(V, verdict, t, "run")
    BY <1>14 DEF Read
  <2>2. /\ V \in SUBSET {u \in Threads : InTransaction(u)}
        /\ V \in SUBSET {u \in Threads \ {t} : InTransaction(u)}
        /\ t \notin V /\ verdict \in [V -> Status] /\ "run" \in ControlPoints
    BY <1>a, ConflictsAreOthers, VerdictsAreStatuses DEF ControlPoints
  <2>3. \A u \in V : owner # u
    BY DEF ReadConflicts
  <2>4. \A u \in Threads \ V : u # t /\ u \in watching => buf[u][x] = None
    BY Apart DEF ReadConflicts
  <2> HIDE DEF V
  <2>5. /\ UNCHANGED <<owner, holds, count, mem, committed>>
        /\ pc[t] = "run" /\ buf[t][x] = None
        /\ seen' = [Undone(seen, V) EXCEPT ![t] = [seen[t] EXCEPT ![x] = mem[x]]]
        /\ buf' = Undone(buf, V)
    BY <1>14 DEF Read, InBlock, V
  <2>6. \A u \in Threads : InFallback(u)' <=> InFallback(u)
    <3>1. pc'[t] = "run"
      BY <1>a, <2>1, <2>2, RollBackEffect
    <3>2. InFallback(t)' <=> InFallback(t)
      BY <2>5, <3>1 DEF InFallback
    <3>. QED
      BY <2>1, <2>2, <2>5, <3>2, RollBackFallback
  <2>7. /\ \A u \in V : seen'[u] = AB!Untouched /\ buf'[u] = AB!Untouched
        /\ \A u \in Threads \ V : buf'[u] = buf[u] /\ (u # t => seen'[u] = seen[u])
        /\ seen'[t] = [seen[t] EXCEPT ![x] = mem[x]]
        /\ watching' = watching \ V
    <3>1. watching' = watching \ V
      BY <2>1 DEF RollBack
    <3>. QED
      BY <1>a, <2>2, <2>3, <2>5, <3>1 DEF Undone, AB!Forget, TypeOK
  <2>8. mem[x] = committed[x]
    <3>1. CASE \A u \in Threads : ~InFallback(u)
      BY <1>b, <3>1 DEF MemoryIsSerial
    <3>2. CASE InFallback(t)
      BY <1>b, <2>5, <3>2 DEF MemoryIsSerial, AB!Overlay
    <3>3. InFallback(t) \/ \A u \in Threads : ~InFallback(u)
      BY <1>14, Apart DEF Read, InBlock
    <3>. QED
      BY <3>1, <3>2, <3>3
  <2>9. MemoryIsSerial'
    <3>1. ASSUME NEW u \in Threads, InFallback(u) PROVE buf'[u] = buf[u]
      BY <2>2, <2>3, <2>7, <3>1 DEF InFallback
    <3>. QED
      BY <1>b, <2>5, <2>6, <3>1 DEF MemoryIsSerial, AB!Overlay
  <2>10. ConflictInv'
    <3> SUFFICES ASSUME NEW a \in Threads, NEW b \in Threads, NEW y \in Locs,
                        a # b, a \in watching', b \in watching', buf'[a][y] # None
                 PROVE  seen'[b][y] = None /\ buf'[b][y] = None
      BY DEF ConflictInv, Speculating
    <3>1. /\ a \notin V /\ b \notin V /\ a \in watching /\ b \in watching
          /\ buf'[a] = buf[a] /\ buf'[b] = buf[b]
      BY <2>7
    <3>2. seen[b][y] = None /\ buf[b][y] = None
      BY <1>b, <3>1 DEF ConflictInv, Speculating
    <3>3. b = t => y # x
      BY <2>4, <3>1
    <3>. QED
      BY <1>a, <2>7, <3>1, <3>2, <3>3 DEF TypeOK
  <2>11. LogInv(t)'
    <3>1. t \in watching \/ InFallback(t)
      BY <1>14, Apart DEF Read, InBlock
    <3>2. t \in watching' \/ InFallback(t)'
      BY <2>2, <2>6, <2>7, <3>1
    <3>. QED
      BY <1>a, <1>b, <2>5, <2>7, <2>8, <3>2 DEF LogInv, Speculating, TypeOK
  <2>12. ASSUME NEW u \in Threads \ {t} PROVE LogInv(u)'
    <3>1. CASE u \in V
      BY <2>7, <3>1 DEF LogInv, AB!Untouched
    <3>2. CASE u \notin V
      BY <1>b, <2>5, <2>6, <2>7, <3>2 DEF LogInv, Speculating
    <3>. QED
      BY <3>1, <3>2
  <2>. QED
    BY <2>9, <2>10, <2>11, <2>12 DEF DataInv
<1>15. ASSUME NEW x \in Locs, NEW v \in Vals, Write(t, x, v) PROVE DataInv'
  <2> DEFINE V == WriteConflicts(t, x)
  <2>1. PICK verdict \in HardwareVerdicts(V) : RollBack(V, verdict, t, "run")
    BY <1>15 DEF Write
  <2>2. /\ V \in SUBSET {u \in Threads : InTransaction(u)}
        /\ V \in SUBSET {u \in Threads \ {t} : InTransaction(u)}
        /\ t \notin V /\ verdict \in [V -> Status] /\ "run" \in ControlPoints
    BY <1>a, ConflictsAreOthers, VerdictsAreStatuses DEF ControlPoints
  <2>3. \A u \in V : owner # u
    BY DEF WriteConflicts
  <2>4. \A u \in Threads \ V : u # t /\ u \in watching =>
          buf[u][x] = None /\ seen[u][x] = None
    BY Apart DEF WriteConflicts
  <2> HIDE DEF V
  <2>5. /\ UNCHANGED <<owner, holds, count, committed>>
        /\ pc[t] = "run"
        /\ buf' = [Undone(buf, V) EXCEPT ![t] = [buf[t] EXCEPT ![x] = v]]
        /\ seen' = Undone(seen, V)
        /\ mem' = IF InTransaction(t) THEN mem ELSE [mem EXCEPT ![x] = v]
    BY <1>15 DEF Write, InBlock, V
  <2>6. \A u \in Threads : InFallback(u)' <=> InFallback(u)
    <3>1. pc'[t] = "run"
      BY <1>a, <2>1, <2>2, RollBackEffect
    <3>2. InFallback(t)' <=> InFallback(t)
      BY <2>5, <3>1 DEF InFallback
    <3>. QED
      BY <2>1, <2>2, <2>5, <3>2, RollBackFallback
  <2>7. /\ \A u \in V : seen'[u] = AB!Untouched /\ buf'[u] = AB!Untouched
        /\ \A u \in Threads \ V : seen'[u] = seen[u] /\ (u # t => buf'[u] = buf[u])
        /\ buf'[t] = [buf[t] EXCEPT ![x] = v]
        /\ watching' = watching \ V
    <3>1. watching' = watching \ V
      BY <2>1 DEF RollBack
    <3>. QED
      BY <1>a, <2>2, <2>3, <2>5, <3>1 DEF Undone, AB!Forget, TypeOK
  <2>8. v # None
    OBVIOUS
  <2>9. MemoryIsSerial'
    <3>1. CASE InTransaction(t)
      BY <1>b, <1>15, <2>5, <2>6, <3>1, Apart DEF MemoryIsSerial, Write, InBlock
    <3>2. CASE ~InTransaction(t)
      <4>1. InFallback(t) /\ \A u \in Threads : InFallback(u) => u = t
        BY <1>15, <3>2, Apart DEF Write
      <4>2. mem = AB!Overlay(committed, buf[t])
        BY <1>b, <4>1 DEF MemoryIsSerial
      <4>3. mem' = AB!Overlay(committed, buf'[t])
        BY <1>a, <2>5, <2>7, <2>8, <3>2, <4>2 DEF AB!Overlay, TypeOK
      <4>. QED
        BY <2>5, <2>6, <4>1, <4>3 DEF MemoryIsSerial, AB!Overlay
    <3>. QED
      BY <3>1, <3>2
  <2>10. ConflictInv'
    <3> SUFFICES ASSUME NEW a \in Threads, NEW b \in Threads, NEW y \in Locs,
                        a # b, a \in watching', b \in watching', buf'[a][y] # None
                 PROVE  seen'[b][y] = None /\ buf'[b][y] = None
      BY DEF ConflictInv, Speculating
    <3>1. /\ a \notin V /\ b \notin V /\ a \in watching /\ b \in watching
          /\ seen'[b] = seen[b]
      BY <2>7
    <3>2. CASE y = x
      <4>1. a = t
        BY <2>4, <2>7, <3>1, <3>2
      <4>. QED
        BY <2>4, <2>7, <3>1, <3>2, <4>1
    <3>3. CASE y # x
      <4>1. buf'[a][y] = buf[a][y] /\ buf'[b][y] = buf[b][y]
        BY <1>a, <2>7, <3>1, <3>3 DEF TypeOK
      <4>. QED
        BY <1>b, <3>1, <4>1 DEF ConflictInv, Speculating
    <3>. QED
      BY <3>2, <3>3
  <2>11. LogInv(t)'
    <3>1. t \in watching \/ InFallback(t)
      BY <1>15, Apart DEF Write, InBlock
    <3>2. t \in watching' \/ InFallback(t)'
      BY <2>2, <2>6, <2>7, <3>1
    <3>. QED
      BY <1>b, <2>2, <2>5, <2>7, <3>2 DEF LogInv, Speculating
  <2>12. ASSUME NEW u \in Threads \ {t} PROVE LogInv(u)'
    <3>1. CASE u \in V
      BY <2>7, <3>1 DEF LogInv, AB!Untouched
    <3>2. CASE u \notin V
      BY <1>b, <2>5, <2>6, <2>7, <3>2 DEF LogInv, Speculating
    <3>. QED
      BY <3>1, <3>2
  <2>. QED
    BY <2>9, <2>10, <2>11, <2>12 DEF DataInv
<1>. QED
  BY <1>1, <1>2, <1>3, <1>4, <1>5, <1>6, <1>7, <1>8, <1>9, <1>10, <1>11, <1>12,
     <1>13, <1>14, <1>15, WrittenAssumption DEF Runtime, Program, End

-----------------------------------------------------------------------------
(* The theorems. *)

\* The inductive invariant holds in every reachable state of the runtime.
THEOREM Invariance == Spec => []IInv
<1>1. Init => IInv
  BY InitControl, InitData DEF IInv
<1>2. IInv /\ [Next]_vars => IInv'
  BY ControlStep, DataStep DEF IInv
<1>. QED
  BY <1>1, <1>2, PTL DEF Spec

\* Every variable of the runtime keeps its type; in particular no thread exceeds
\* its attempts and the counter never wraps around.
THEOREM TypeCorrect == Spec => []TypeOK
<1>1. IInv => TypeOK
  BY DEF IInv, ControlInv
<1>. QED
  BY <1>1, Invariance, PTL

\* The counter says how many fallback blocks are open, outside of the two
\* windows in three_transaction_lock and three_transaction_unlock.
THEOREM CounterCorrect == Spec => []CounterMatchesMutex
<1>1. IInv => CounterMatchesMutex
  BY DEF IInv, ControlInv
<1>. QED
  BY <1>1, Invariance, PTL

\* No transaction is past its check while a thread is in its fallback.
THEOREM Exclusion == Spec => []FallbackExcludesSpeculation
<1>1. IInv => FallbackExcludesSpeculation
  BY Apart DEF IInv, FallbackExcludesSpeculation, Speculating
<1>. QED
  BY <1>1, Invariance, PTL

\* Memory never shows anything of a transaction that has not completed.
THEOREM SerialMemory == Spec => []MemoryIsSerial
<1>1. IInv => MemoryIsSerial
  BY DEF IInv, DataInv
<1>. QED
  BY <1>1, Invariance, PTL

\* Only the lock and the unlock of an outermost block hand the mutex on, and at
\* both the counter is zero.
LEMMA Handover ==
  ASSUME IInv, [Next]_vars, owner' # owner
  PROVE  count = 0 /\ \A t \in {owner, owner'} \ {None} : ~InTransaction(t)
<1>. USE DEF setup, lock, data, hardware
<1>1. TypeOK /\ CounterMatchesMutex /\ \A t \in Threads : PositionInv(t)
  BY DEF IInv, ControlInv
<1>2. PICK t \in Threads : mtx_lock(t) \/ mtx_unlock(t)
  <2>1. PICK t \in Threads : Runtime(t) \/ Program(t) \/ HardwareAbort(t)
    BY DEF Next, vars
  <2>2. ~HardwareAbort(t) /\ ~Program(t)
    BY DEF HardwareAbort, Program, Begin, End, xend, CountDown,
       three_transaction_abort, Read, Write
  <2>3. ~three_transaction_initialize(t)
    BY DEF three_transaction_initialize, mtx_init, IInv, ControlInv, SetupInv
  <2>4. Runtime(t) => mtx_lock(t) \/ mtx_unlock(t)
    BY <2>3 DEF Runtime, call_once, xbegin, CheckStarted, Dispatch, CountUp
  <2>. QED
    BY <2>1, <2>2, <2>4
<1>3. CASE mtx_lock(t)
  <2>1. owner = None /\ owner' = t /\ pc[t] = "lock"
    BY <1>3 DEF mtx_lock
  <2>2. count = 0
    BY <1>1, <2>1 DEF CounterMatchesMutex
  <2>3. ~InTransaction(t)
    BY <1>1, <2>1 DEF PositionInv
  <2>. QED
    BY <2>1, <2>2, <2>3
<1>4. CASE mtx_unlock(t)
  <2>1. holds = 1 /\ owner' = None /\ pc[t] = "unlock"
    BY <1>4 DEF mtx_unlock
  <2>2. owner = t /\ owner # None
    BY <1>1, <2>1, ConstantsAssumption DEF PositionInv
  <2>3. count = 0
    BY <1>1, <2>1, <2>2 DEF CounterMatchesMutex
  <2>4. ~InTransaction(t)
    BY <1>1, <2>1 DEF PositionInv
  <2>. QED
    BY <2>1, <2>2, <2>3, <2>4
<1>. QED
  BY <1>2, <1>3, <1>4

\* The mutex changes hands only while the counter announces nobody, and between
\* threads that are in no transaction.
THEOREM HandsChangeUnannounced == Spec => LockChangesHandsUnannounced
<1>1. IInv /\ [Next]_vars =>
        [owner' # owner =>
           count = 0 /\ \A t \in {owner, owner'} \ {None} : ~InTransaction(t)]_vars
  BY Handover
<1>. QED
  BY <1>1, Invariance, PTL DEF Spec, LockChangesHandsUnannounced

-----------------------------------------------------------------------------
(* The runtime implements atomic blocks. *)

\* The runtime starts as atomic blocks do.
LEMMA InitRefines == Init => AB!Init
BY DEF Init, AB!Init

\* Undoing transactions is dropping the blocks of those that hold no mutex.
LEMMA UndoneForgets ==
  ASSUME NEW V \in SUBSET Threads
  PROVE  \E W \in SUBSET V : \A log : Undone(log, V) = AB!Forget(log, W)
BY DEF Undone

\* Every step of the runtime is a step of atomic blocks, or changes nothing of
\* what they are about.
LEMMA StepRefines ==
  ASSUME IInv, [Next]_vars
  PROVE  [AB!Next]_(AB!vars)
<1> USE ConstantsAssumption DEF setup, lock, data, hardware
<1> SUFFICES ASSUME NEW t \in Threads,
                    Runtime(t) \/ Program(t) \/ HardwareAbort(t)
             PROVE  AB!Next \/ UNCHANGED <<committed, seen, buf>>
  BY DEF Next, vars, AB!vars
<1>a. TypeOK /\ ControlInv /\ DataInv
  BY DEF IInv, ControlInv
<1>1. ASSUME NEW V \in SUBSET Threads, UNCHANGED committed,
             seen' = Undone(seen, V), buf' = Undone(buf, V)
      PROVE  AB!Next
  <2>1. PICK W \in SUBSET V : seen' = AB!Forget(seen, W) /\ buf' = AB!Forget(buf, W)
    BY <1>1, UndoneForgets
  <2>2. W \in SUBSET Threads /\ AB!Drop(W)
    BY <1>1, <2>1 DEF AB!Drop
  <2>. QED
    BY <2>2 DEF AB!Next
<1>2. CASE Begin(t) \/ call_once(t) \/ three_transaction_initialize(t) \/ xbegin(t)
           \/ Dispatch(t) \/ mtx_lock(t) \/ mtx_unlock(t)
  BY <1>2 DEF Begin, call_once, three_transaction_initialize, xbegin, Dispatch,
     mtx_lock, mtx_unlock
<1>3. CASE HardwareAbort(t) \/ three_transaction_abort(t) \/ CheckStarted(t)
  BY <1>1, <1>3 DEF HardwareAbort, three_transaction_abort, CheckStarted, AbortOwn
<1>4. CASE CountUp(t)
  <2>1. CountConflicts(t) \in SUBSET Threads
    BY <1>a, ConflictsAreOthers
  <2>. QED
    BY <1>1, <1>4, <2>1 DEF CountUp
<1>5. ASSUME NEW x \in Locs, Read(t, x) PROVE AB!Next
  <2>1. ReadConflicts(t, x) \in SUBSET Threads /\ t \notin ReadConflicts(t, x)
    BY <1>a, ConflictsAreOthers
  <2>2. PICK W \in SUBSET ReadConflicts(t, x) :
          \A log : Undone(log, ReadConflicts(t, x)) = AB!Forget(log, W)
    BY <2>1, UndoneForgets
  <2>3. mem[x] = committed[x]
    <3>1. InFallback(t) \/ \A u \in Threads : ~InFallback(u)
      BY <1>a, <1>5, Apart DEF Read, InBlock
    <3>. QED
      BY <1>a, <1>5, <3>1 DEF Read, DataInv, MemoryIsSerial, AB!Overlay
  <2>4. seen[t][x] \in {None, committed[x]}
    BY <1>a DEF DataInv, LogInv
  <2>5. AB!Read(t, x, W)
    BY <1>5, <2>1, <2>2, <2>3, <2>4 DEF Read, AB!Read
  <2>. QED
    BY <2>1, <2>5 DEF AB!Next
<1>6. ASSUME NEW x \in Locs, NEW v \in Vals, Write(t, x, v) PROVE AB!Next
  <2>1. WriteConflicts(t, x) \in SUBSET Threads /\ t \notin WriteConflicts(t, x)
    BY <1>a, ConflictsAreOthers
  <2>2. PICK W \in SUBSET WriteConflicts(t, x) :
          \A log : Undone(log, WriteConflicts(t, x)) = AB!Forget(log, W)
    BY <2>1, UndoneForgets
  <2>3. AB!Write(t, x, v, W)
    BY <1>6, <2>1, <2>2 DEF Write, AB!Write
  <2>. QED
    BY <2>1, <2>3 DEF AB!Next
<1>7. CASE xend(t)
  <2>1. CASE nest[t] = 1
    <3>1. AB!Commit(t, {})
      BY <1>a, <1>7, <2>1 DEF xend, Complete, AB!Commit, DataInv, LogInv
    <3>. QED
      BY <3>1 DEF AB!Next
  <2>2. CASE nest[t] # 1
    BY <1>7, <2>2 DEF xend
  <2>. QED
    BY <2>1, <2>2
<1>8. CASE CountDown(t)
  <2>1. CountConflicts(t) \in SUBSET Threads /\ t \notin CountConflicts(t)
    BY <1>a, ConflictsAreOthers
  <2>2. CASE holds = 1
    <3>1. AB!Commit(t, CountConflicts(t))
      BY <1>a, <1>8, <2>1, <2>2 DEF CountDown, AB!Commit, DataInv, LogInv
    <3>. QED
      BY <2>1, <3>1 DEF AB!Next
  <2>3. CASE holds # 1
    BY <1>1, <1>8, <2>1, <2>3 DEF CountDown
  <2>. QED
    BY <2>2, <2>3
<1>. QED
  BY <1>2, <1>3, <1>4, <1>5, <1>6, <1>7, <1>8, WrittenAssumption DEF Runtime, Program, End

\* However the blocks of a program run, as transactions or under the lock,
\* rolled back or not, they behave as the atomic blocks of AtomicBlocks.
THEOREM Atomicity == Spec => BlocksAreAtomic
<1>1. Init => AB!Init
  BY InitRefines
<1>2. IInv /\ [Next]_vars => [AB!Next]_(AB!vars)
  BY StepRefines
<1>. QED
  BY <1>1, <1>2, Invariance, PTL DEF Spec, BlocksAreAtomic, AB!Spec

=============================================================================
