------------------------- MODULE TransactionalMemory -------------------------
(***************************************************************************)
(* The run-time support for the atomic statement                           *)
(* (runtime/transactional_memory.c): threads call three_transaction_begin, *)
(* _end and _abort around blocks of code.  On a CPU with restricted        *)
(* transactional memory (RTM) a block runs as a hardware transaction; when *)
(* the hardware gives up, or is not there, the block runs under one        *)
(* recursive mutex, with an atomic counter that tells the transactions     *)
(* that the mutex is in use.                                               *)
(*                                                                         *)
(* The hardware (xbegin, xend, xabort, its buffered writes and its eager   *)
(* conflict detection) and pthreads are external: they are modelled by     *)
(* what the runtime relies on.  The threads are any program that brackets  *)
(* its blocks properly and touches shared data only inside them.           *)
(***************************************************************************)
EXTENDS Integers

CONSTANTS
  Threads,    \* threads of the program
  Locs,       \* shared data locations
  Vals,       \* values a location can hold
  Written,    \* bound: the values among them that blocks write
  InitVal,    \* initial value of every location
  None,       \* "no thread", or "location not touched"
  HasRTM,     \* does three_cpu_has_capability find RTM?
  Attempts,   \* THREE_TRANSACTION_ATTEMPTS
  MaxDepth,   \* bound: how deep a thread nests its blocks
  UIntSize    \* number of values of an atomic_uint (2^32)

ASSUME ConstantsAssumption ==
  /\ InitVal \in Vals
  /\ None \notin Threads \cup Vals
  /\ HasRTM \in BOOLEAN
  /\ Attempts \in Nat \ {0}
  /\ MaxDepth \in Nat \ {0}
  /\ UIntSize \in Nat /\ UIntSize > MaxDepth

ASSUME WrittenAssumption == Written \subseteq Vals

VARIABLES
  once,       \* state of _three_transactions_once_flag
  supported,  \* _three_transaction_supported
  owner,      \* thread that holds _three_transaction_mtx, or None
  holds,      \* how often it holds it: the mutex is recursive
  count,      \* _three_transaction_mtx_count
  mem,        \* shared data as other threads see it
  nest,       \* hardware: depth of t's transaction, 0 outside of one
  watching,   \* hardware: threads whose transaction has count in its read set
  seen,       \* thread -> location -> value its open block read from memory
  buf,        \* thread -> location -> value its open block has written
  pc,         \* where the thread is in the runtime; "run" is in its own code
  status,     \* result of the last xbegin of t
  tries,      \* local variable of three_transaction_begin
  committed   \* history: memory as the completed blocks have left it

hardware == <<nest, watching, seen, buf>>
data == <<mem, committed>>
lock == <<owner, holds, count>>
setup == <<once, supported>>
vars == <<once, supported, owner, holds, count, mem, nest, watching, seen,
          buf, pc, status, tries, committed>>

\* Atomic blocks as the program understands them.
AB == INSTANCE AtomicBlocks WITH store <- committed, reads <- seen, writes <- buf

-----------------------------------------------------------------------------
(* Status words of xbegin.  The bits are abstracted to what the dispatch in
   three_transaction_begin tells apart: _XBEGIN_STARTED, the two explicit
   abort codes, a hardware abort with _XABORT_RETRY, and one without.        *)
HardwareStatus == {"retry", "no_retry"}
Status == {"started", "needs_lock", "explicit"} \cup HardwareStatus

ControlPoints ==
  {"run", "once", "init", "xbegin", "check", "lock", "count", "unlock"}

TypeOK ==
  /\ once \in {"never", "running", "done"}
  /\ supported \in BOOLEAN
  /\ owner \in Threads \cup {None}
  /\ holds \in 0 .. MaxDepth
  /\ count \in 0 .. UIntSize - 1
  /\ mem \in [Locs -> Vals]
  /\ committed \in [Locs -> Vals]
  /\ nest \in [Threads -> 0 .. MaxDepth]
  /\ watching \subseteq Threads
  /\ seen \in [Threads -> [Locs -> Vals \cup {None}]]
  /\ buf \in [Threads -> [Locs -> Vals \cup {None}]]
  /\ pc \in [Threads -> ControlPoints]
  /\ status \in [Threads -> Status]
  /\ tries \in [Threads -> 0 .. Attempts - 1]

Init ==
  /\ once = "never"
  /\ supported = FALSE
  /\ owner = None
  /\ holds = 0
  /\ count = 0
  /\ mem = [x \in Locs |-> InitVal]
  /\ committed = mem
  /\ nest = [t \in Threads |-> 0]
  /\ watching = {}
  /\ seen = [t \in Threads |-> AB!Untouched]
  /\ buf = [t \in Threads |-> AB!Untouched]
  /\ pc = [t \in Threads |-> "run"]
  /\ status = [t \in Threads |-> "started"]
  /\ tries = [t \in Threads |-> 0]

-----------------------------------------------------------------------------
(* Hardware transactions. *)

InTransaction(t) == nest[t] > 0          \* _xtest() == 1

\* The mutex depth of t, and the number of blocks t has open.
HeldBy(t) == IF owner = t THEN holds ELSE 0
OpenBlocks(t) == HeldBy(t) + nest[t]

\* The transactions, other than t's own, whose read or write set a write of t
\* to data location x hits; those whose write set a read of x hits; and those
\* that have read count when t writes it.
WriteConflicts(t, x) ==
  {u \in Threads \ {t} :
     InTransaction(u) /\ owner # u /\ (seen[u][x] # None \/ buf[u][x] # None)}
ReadConflicts(t, x) ==
  {u \in Threads \ {t} : InTransaction(u) /\ owner # u /\ buf[u][x] # None}
CountConflicts(t) ==
  {u \in watching \ {t} : InTransaction(u)}

\* The logs are the read and write sets of the transaction, unless the thread
\* holds the mutex: then they tell what its block has done under the lock, the
\* transaction nested in the block has touched no data, and a rollback undoes
\* nothing of it.
Undone(log, V) == AB!Forget(log, {u \in V : owner # u})

\* What the hardware tells an aborted transaction: anything, for each of them.
HardwareVerdicts(V) == [V -> HardwareStatus]

\* The transactions of the threads in V are rolled back to their outermost
\* xbegin, which returns again, now with the status verdict[u]; t itself goes
\* to control point p.
RollBack(V, verdict, t, p) ==
  /\ nest' = [u \in Threads |-> IF u \in V THEN 0 ELSE nest[u]]
  /\ watching' = watching \ V
  /\ status' = [u \in Threads |-> IF u \in V THEN verdict[u] ELSE status[u]]
  /\ pc' = [u \in Threads |-> IF u \in V THEN "check"
                              ELSE IF u = t THEN p ELSE pc[u]]

\* The transaction of t alone is rolled back, with the given status.
AbortOwn(t, s) ==
  /\ RollBack({t}, [u \in {t} |-> s], t, "check")
  /\ seen' = Undone(seen, {t})
  /\ buf' = Undone(buf, {t})

\* Interrupts, capacity, unsupported instructions: at any time in a
\* transaction, whatever the thread is doing.
HardwareAbort(t) ==
  /\ InTransaction(t)
  /\ \E s \in HardwareStatus : AbortOwn(t, s)
  /\ UNCHANGED <<setup, lock, data, tries>>

-----------------------------------------------------------------------------
(* three_transaction_begin *)

\* The program enters a block.
Begin(t) ==
  /\ pc[t] = "run"
  /\ OpenBlocks(t) < MaxDepth
  /\ pc' = [pc EXCEPT ![t] = "once"]
  /\ UNCHANGED <<setup, lock, data, hardware, status, tries>>

\* Behind call_once.  A nested call in a transaction has its own tries, which
\* it never advances; the count of the outermost call is what a rollback needs.
AfterOnce(t, isSupported) ==
  /\ pc' = [pc EXCEPT ![t] = IF isSupported THEN "xbegin" ELSE "lock"]
  /\ tries' = IF InTransaction(t) THEN tries ELSE [tries EXCEPT ![t] = 0]

\* Callers are held only until the initialisation has begun: the first one then
\* initialises the mutex that others may have locked already.
EarlyMutant(t) ==
  /\ pc[t] = "once"
  /\ IF once = "never"
       THEN once' = "running" /\ pc' = [pc EXCEPT ![t] = "init"] /\ UNCHANGED tries
       ELSE AfterOnce(t, supported) /\ UNCHANGED once
  /\ UNCHANGED <<supported, lock, data, hardware, status>>

\* call_once lets the first caller initialise, and holds the others until the
\* initialisation is complete.
call_once(t) ==
  /\ pc[t] = "once"
  /\ \/ /\ once = "never"
        /\ once' = "running"
        /\ pc' = [pc EXCEPT ![t] = "init"]
        /\ UNCHANGED tries
     \/ /\ once = "done"
        /\ AfterOnce(t, supported)
        /\ UNCHANGED once
  /\ UNCHANGED <<supported, lock, data, hardware, status>>

\* The mutex is free then, whatever it was before.
mtx_init == owner' = None /\ holds' = 0

three_transaction_initialize(t) ==
  /\ pc[t] = "init"
  /\ supported' = HasRTM
  /\ mtx_init
  /\ once' = "done"
  /\ AfterOnce(t, HasRTM)
  /\ UNCHANGED <<count, data, hardware, status>>

\* Starts a transaction, or nests one in the transaction of t.
xbegin(t) ==
  /\ pc[t] = "xbegin"
  /\ nest' = [nest EXCEPT ![t] = nest[t] + 1]
  /\ status' = [status EXCEPT ![t] = "started"]
  /\ pc' = [pc EXCEPT ![t] = "check"]
  /\ UNCHANGED <<setup, lock, data, watching, seen, buf, tries>>

\* (Variations, named "...Mutant" here and below, are faults a run must notice.)
\* The counter is not tested.
UncheckedStartMutant(t) ==
  /\ pc[t] = "check" /\ InTransaction(t)
  /\ watching' = watching \cup {t}
  /\ pc' = [pc EXCEPT ![t] = "run"]
  /\ UNCHANGED <<setup, lock, data, nest, seen, buf, status, tries>>

\* The counter is tested on a value read before the transaction.
StaleStartMutant(t) ==
  /\ pc[t] = "check" /\ InTransaction(t)
  /\ count = 0
  /\ pc' = [pc EXCEPT ![t] = "run"]
  /\ UNCHANGED <<setup, lock, data, hardware, status, tries>>

\* xbegin has started a transaction: read the counter in it, and abort when a
\* thread is in its fallback.
CheckStarted(t) ==
  /\ pc[t] = "check"
  /\ InTransaction(t)
  /\ IF count > 0
       THEN AbortOwn(t, "needs_lock")
       ELSE /\ watching' = watching \cup {t}
            /\ pc' = [pc EXCEPT ![t] = "run"]
            /\ UNCHANGED <<nest, seen, buf, status>>
  /\ UNCHANGED <<setup, lock, data, tries>>

\* The tries are counted one too far ...
DispatchTooOftenMutant(t) ==
  /\ pc[t] = "check" /\ ~InTransaction(t)
  /\ tries' = IF status[t] = "retry" /\ tries[t] < Attempts
                THEN [tries EXCEPT ![t] = tries[t] + 1] ELSE [tries EXCEPT ![t] = 0]
  /\ pc' = [pc EXCEPT ![t] = IF status[t] = "explicit" THEN "run"
                             ELSE IF tries'[t] = 0 THEN "lock" ELSE "xbegin"]
  /\ status' = [status EXCEPT ![t] = "started"]
  /\ UNCHANGED <<setup, lock, data, hardware>>

\* ... or not at all.
DispatchForeverMutant(t) ==
  /\ pc[t] = "check" /\ ~InTransaction(t)
  /\ pc' = [pc EXCEPT ![t] = IF status[t] = "explicit" THEN "run"
                             ELSE IF status[t] = "retry" THEN "xbegin" ELSE "lock"]
  /\ status' = [status EXCEPT ![t] = "started"]
  /\ UNCHANGED <<setup, lock, data, hardware, tries>>

\* xbegin has returned from an abort (the xabort is without effect here): try
\* again, take the lock, or return false to the program.
Dispatch(t) ==
  /\ pc[t] = "check"
  /\ ~InTransaction(t)
  /\ \/ /\ status[t] = "explicit"
        /\ pc' = [pc EXCEPT ![t] = "run"]
        /\ tries' = [tries EXCEPT ![t] = 0]
     \/ /\ status[t] = "retry"
        /\ tries[t] + 1 < Attempts
        /\ pc' = [pc EXCEPT ![t] = "xbegin"]
        /\ tries' = [tries EXCEPT ![t] = tries[t] + 1]
     \/ /\ \/ status[t] \in {"needs_lock", "no_retry"}
           \/ status[t] = "retry" /\ tries[t] + 1 = Attempts
        /\ pc' = [pc EXCEPT ![t] = "lock"]
        /\ tries' = [tries EXCEPT ![t] = 0]
  /\ status' = [status EXCEPT ![t] = "started"]
  /\ UNCHANGED <<setup, lock, data, hardware>>

\* three_transaction_lock: the mutex first ...
mtx_lock(t) ==
  /\ pc[t] = "lock"
  /\ owner \in {None, t}
  /\ owner' = t
  /\ holds' = holds + 1
  /\ pc' = [pc EXCEPT ![t] = "count"]
  /\ UNCHANGED <<setup, count, data, hardware, status, tries>>

\* The counter is a flag, though the mutex is recursive.
FlagMutant(t) ==
  /\ pc[t] = "count"
  /\ count' = 1
  /\ RollBack(CountConflicts(t), [u \in CountConflicts(t) |-> "retry"], t, "run")
  /\ seen' = Undone(seen, CountConflicts(t))
  /\ buf' = Undone(buf, CountConflicts(t))
  /\ UNCHANGED <<setup, owner, holds, data, tries>>

\* ... then the counter, which every running transaction has read.
CountUp(t) ==
  LET V == CountConflicts(t) IN
  /\ pc[t] = "count"
  /\ count' = (count + 1) % UIntSize
  /\ \E verdict \in HardwareVerdicts(V) : RollBack(V, verdict, t, "run")
  /\ seen' = Undone(seen, V)
  /\ buf' = Undone(buf, V)
  /\ UNCHANGED <<setup, owner, holds, data, tries>>

-----------------------------------------------------------------------------
(* The program inside a block.  Under the lock a write goes to memory at once;
   buf then only remembers it for the history. *)

InBlock(t) == pc[t] = "run" /\ OpenBlocks(t) > 0

\* The block of t reads x, and not from its own writes.
Read(t, x) ==
  LET V == ReadConflicts(t, x) IN
  /\ InBlock(t)
  /\ buf[t][x] = None
  /\ \E verdict \in HardwareVerdicts(V) : RollBack(V, verdict, t, "run")
  /\ seen' = [Undone(seen, V) EXCEPT ![t] = [seen[t] EXCEPT ![x] = mem[x]]]
  /\ buf' = Undone(buf, V)
  /\ UNCHANGED <<setup, lock, data, tries>>

Write(t, x, v) ==
  LET V == WriteConflicts(t, x) IN
  /\ InBlock(t)
  /\ \E verdict \in HardwareVerdicts(V) : RollBack(V, verdict, t, "run")
  /\ buf' = [Undone(buf, V) EXCEPT ![t] = [buf[t] EXCEPT ![x] = v]]
  /\ seen' = Undone(seen, V)
  /\ mem' = IF InTransaction(t) THEN mem ELSE [mem EXCEPT ![x] = v]
  /\ UNCHANGED <<setup, lock, committed, tries>>

-----------------------------------------------------------------------------
(* three_transaction_end and three_transaction_abort *)

\* The outermost block of t is complete; its logs are cleared.
Complete(t) ==
  /\ committed' = AB!Overlay(committed, buf[t])
  /\ seen' = AB!Forget(seen, {t})
  /\ buf' = AB!Forget(buf, {t})

\* three_transaction_end in a transaction: the outermost xend publishes the
\* buffered writes at once.
xend(t) ==
  /\ pc[t] = "run"
  /\ supported /\ InTransaction(t)
  /\ nest' = [nest EXCEPT ![t] = nest[t] - 1]
  /\ IF nest[t] = 1
       THEN /\ Complete(t)
            /\ mem' = AB!Overlay(mem, buf[t])
            /\ watching' = watching \ {t}
       ELSE UNCHANGED <<data, watching, seen, buf>>
  /\ UNCHANGED <<setup, lock, pc, status, tries>>

\* three_transaction_end outside of one, which is three_transaction_unlock: the
\* counter first ...
CountDown(t) ==
  LET V == CountConflicts(t) IN
  /\ InBlock(t)
  /\ ~InTransaction(t)
  /\ count' = (count - 1) % UIntSize
  /\ \E verdict \in HardwareVerdicts(V) : RollBack(V, verdict, t, "unlock")
  /\ IF holds = 1
       THEN /\ committed' = AB!Overlay(committed, buf[t])
            /\ seen' = AB!Forget(seen, V \cup {t})
            /\ buf' = AB!Forget(buf, V \cup {t})
       ELSE /\ seen' = Undone(seen, V)
            /\ buf' = Undone(buf, V)
            /\ UNCHANGED committed
  /\ UNCHANGED <<setup, owner, holds, mem, tries>>

\* The mutex is not recursive: the first unlock frees it ...
FreeTooSoonMutant(t) ==
  /\ pc[t] = "unlock"
  /\ owner' = None
  /\ holds' = 0
  /\ pc' = [pc EXCEPT ![t] = "run"]
  /\ UNCHANGED <<setup, count, data, hardware, status, tries>>

\* ... or it is never unlocked.
KeepLockMutant(t) ==
  /\ pc[t] = "unlock"
  /\ pc' = [pc EXCEPT ![t] = "run"]
  /\ UNCHANGED <<setup, lock, data, hardware, status, tries>>

\* ... then the mutex.
mtx_unlock(t) ==
  /\ pc[t] = "unlock"
  /\ owner' = IF holds = 1 THEN None ELSE owner
  /\ holds' = holds - 1
  /\ pc' = [pc EXCEPT ![t] = "run"]
  /\ UNCHANGED <<setup, count, data, hardware, status, tries>>

\* Under the lock xabort does nothing, and without RTM the runtime refuses: the
\* call changes something only in a transaction.
three_transaction_abort(t) ==
  /\ InBlock(t)
  /\ supported /\ InTransaction(t)
  /\ AbortOwn(t, "explicit")
  /\ UNCHANGED <<setup, lock, data, tries>>

-----------------------------------------------------------------------------
\* The steps of the runtime that a thread takes on its own account once it has
\* called begin or end, the program's steps, and the hardware's.
Runtime(t) ==
  \/ call_once(t) \/ three_transaction_initialize(t)
  \/ xbegin(t) \/ CheckStarted(t) \/ Dispatch(t)
  \/ mtx_lock(t) \/ CountUp(t) \/ mtx_unlock(t)

End(t) == xend(t) \/ CountDown(t)

Program(t) ==
  \/ Begin(t) \/ End(t) \/ three_transaction_abort(t)
  \/ \E x \in Locs : Read(t, x) \/ \E v \in Written : Write(t, x, v)

Next == \E t \in Threads : Runtime(t) \/ Program(t) \/ HardwareAbort(t)

Spec == Init /\ [][Next]_vars

\* A thread that is scheduled keeps executing the runtime's code (pthreads
\* promises no more: whoever finds the mutex free may take it), and a program's
\* block is a finite piece of code: whatever its depth, it is left in the end.
Fairness ==
  \A t \in Threads :
    /\ WF_vars(Runtime(t))
    /\ \A d \in 1 .. MaxDepth : SF_vars(OpenBlocks(t) = d /\ End(t))

FairSpec == Spec /\ Fairness

-----------------------------------------------------------------------------
(* Correctness. *)

\* A thread whose fallback the counter announces: from the increment of its
\* outermost block to the decrement.
InFallback(t) ==
  owner = t /\ holds > 0 /\ (holds = 1 => pc[t] \notin {"count", "unlock"})

\* A thread whose block runs speculatively: its transaction is past the check,
\* and whoever writes the counter aborts it.
Speculating(t) == t \in watching

\* The counter and the transactions' read of it keep the two ways of running
\* a block apart: while a thread is in its fallback no transaction that is past
\* the check is alive, though nobody waits for anybody.
FallbackExcludesSpeculation ==
  \A t, u \in Threads : InFallback(t) => ~Speculating(u)

\* The counter counts the fallback blocks that are open, and is behind the
\* mutex only in the two windows between a lock call and its counter update.
\* In particular it never wraps, and it is zero when the mutex is free, so a
\* fallback never disables speculation for good.
CounterMatchesMutex ==
  /\ owner = None <=> holds = 0
  /\ count = IF owner # None /\ pc[owner] \in {"count", "unlock"}
               THEN holds - 1 ELSE holds

\* Memory is what completed blocks have left, plus what the one thread in its
\* fallback has written so far: nothing of a transaction that is still running
\* or was rolled back is ever visible.
MemoryIsSerial ==
  /\ (\A t \in Threads : ~InFallback(t)) => mem = committed
  /\ \A t \in Threads : InFallback(t) => mem = AB!Overlay(committed, buf[t])

\* Blocks are atomic: every block, however it ran and however often it was
\* rolled back, reads and takes effect as if it had run alone at one instant,
\* and an aborted one leaves no trace.
BlocksAreAtomic == AB!Spec

\* A thread that is about to take the outermost fallback lock never has a
\* transaction of its own, and the mutex only changes hands while the counter
\* does not announce it: whoever sees a counter above zero sees the whole
\* fallback that raised it.
LockChangesHandsUnannounced ==
  [][owner' # owner => count = 0 /\ \A t \in {owner, owner'} \ {None} : ~InTransaction(t)]_vars

\* A call of three_transaction_begin makes a bounded number of hardware
\* attempts: it returns, or ends up waiting for the mutex.
BeginDecides ==
  \A t \in Threads : pc[t] = "once" ~> pc[t] \in {"run", "lock"}

\* A thread waiting for the mutex of another is not forgotten: the mutex is
\* released and somebody gets it for a new outermost block.  (Not necessarily
\* that thread: pthreads does not queue fairly.)
LockIsHandedOn ==
  (\E t \in Threads : pc[t] = "lock" /\ owner # t)
    ~> (\E t \in Threads : pc[t] = "count" /\ holds = 1)

-----------------------------------------------------------------------------
(* The inductive invariant behind the safety properties: what ties the control
   points of a thread, the hardware and the lock together.                   *)

\* One thread initialises, and nobody starts a transaction or takes the mutex
\* before that.
SetupInv ==
  /\ supported => once = "done"
  /\ once # "done" => owner = None
  /\ \A t \in Threads :
       /\ pc[t] = "init" => once = "running"
       /\ pc[t] = "lock" => once = "done"
       /\ pc[t] \in {"xbegin", "check"} \/ InTransaction(t) => supported
       /\ \A u \in Threads : pc[t] = "init" /\ pc[u] = "init" => t = u

\* Where t is tells which of the two ways its blocks run, and how many more
\* fit under MaxDepth.
PositionInv(t) ==
  /\ pc[t] \in {"init", "lock", "count", "unlock"} => ~InTransaction(t)
  /\ pc[t] \in {"count", "unlock"} => owner = t
  /\ OpenBlocks(t) <= MaxDepth
  /\ pc[t] \in {"once", "init", "xbegin", "lock"} => OpenBlocks(t) < MaxDepth
  /\ pc[t] = "check" /\ ~InTransaction(t) => OpenBlocks(t) < MaxDepth

\* A transaction past the check is alive only while the counter is zero, and
\* one before it can only be on its way to the check.
SpeculationInv(t) ==
  /\ t \in watching => InTransaction(t) /\ count = 0
  /\ InTransaction(t) /\ t \notin watching => pc[t] = "check"

\* Only a block that runs has logs, and what it has read is still current.
LogInv(t) ==
  /\ ~Speculating(t) /\ ~InFallback(t) =>
       seen[t] = AB!Untouched /\ buf[t] = AB!Untouched
  /\ \A x \in Locs : seen[t][x] # None => seen[t][x] = committed[x]

\* What one transaction has written no other has touched.
ConflictInv ==
  \A t, u \in Threads : \A x \in Locs :
    t # u /\ Speculating(t) /\ Speculating(u) /\ buf[t][x] # None
      => seen[u][x] = None /\ buf[u][x] = None

ControlInv ==
  /\ TypeOK
  /\ SetupInv
  /\ CounterMatchesMutex
  /\ \A t \in Threads : PositionInv(t) /\ SpeculationInv(t)

DataInv ==
  /\ MemoryIsSerial
  /\ ConflictInv
  /\ \A t \in Threads : LogInv(t)

IInv == ControlInv /\ DataInv

=============================================================================
