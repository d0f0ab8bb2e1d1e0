---------------------------- MODULE AtomicBlocks ----------------------------
(***************************************************************************)
(* What an atomic statement of the Three language promises, with no lock   *)
(* and no hardware in sight: a block that is still open only ever reads    *)
(* what completed blocks have left behind (and its own writes), it takes   *)
(* effect in one step, and a block that is dropped leaves no trace.  The   *)
(* runtime in TransactionalMemory is shown to implement this.              *)
(***************************************************************************)

CONSTANTS
  Threads,    \* threads that execute atomic statements
  Locs,       \* shared locations the statements access
  Vals,       \* values a location can hold
  InitVal,    \* the value every location starts with
  None        \* marks a location a block has not read, or not written

VARIABLES
  store,      \* Locs -> Vals, what the completed blocks have left
  reads,      \* thread -> location -> value its open block has read, or None
  writes      \* thread -> location -> value its open block has written, or None

vars == <<store, reads, writes>>

Untouched == [x \in Locs |-> None]

\* The contents f overwritten by the writes w of a block.
Overlay(f, w) == [x \in Locs |-> IF w[x] = None THEN f[x] ELSE w[x]]

\* The logs of the threads in V are forgotten.
Forget(log, V) == [t \in Threads |-> IF t \in V THEN Untouched ELSE log[t]]

Init ==
  /\ store = [x \in Locs |-> InitVal]
  /\ reads = [t \in Threads |-> Untouched]
  /\ writes = [t \in Threads |-> Untouched]

\* Blocks of the threads in V are dropped: nothing they did is visible.
Drop(V) ==
  /\ reads' = Forget(reads, V)
  /\ writes' = Forget(writes, V)
  /\ UNCHANGED store

\* The open block of t reads x from the store, and finds what it found when it
\* read x before; the blocks of V are dropped.
Read(t, x, V) ==
  /\ t \notin V
  /\ writes[t][x] = None
  /\ reads[t][x] \in {None, store[x]}
  /\ reads' = [Forget(reads, V) EXCEPT ![t] = [reads[t] EXCEPT ![x] = store[x]]]
  /\ writes' = Forget(writes, V)
  /\ UNCHANGED store

\* The open block of t writes v to x; the blocks of V are dropped.
Write(t, x, v, V) ==
  /\ t \notin V
  /\ writes' = [Forget(writes, V) EXCEPT ![t] = [writes[t] EXCEPT ![x] = v]]
  /\ reads' = Forget(reads, V)
  /\ UNCHANGED store

\* The block of t takes effect.  Everything it read is still current, so it
\* is as if the whole block had run in this step.
Commit(t, V) ==
  /\ t \notin V
  /\ \A x \in Locs : reads[t][x] # None => reads[t][x] = store[x]
  /\ store' = Overlay(store, writes[t])
  /\ reads' = Forget(reads, V \cup {t})
  /\ writes' = Forget(writes, V \cup {t})

Next ==
  \E V \in SUBSET Threads :
    \/ Drop(V)
    \/ \E t \in Threads :
         \/ Commit(t, V)
         \/ \E x \in Locs : \/ Read(t, x, V)
                            \/ \E v \in Vals : Write(t, x, v, V)

Spec == Init /\ [][Next]_vars

=============================================================================
