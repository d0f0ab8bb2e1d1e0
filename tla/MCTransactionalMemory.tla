----------------------- MODULE MCTransactionalMemory -----------------------
(***************************************************************************)
(* Small instances of TransactionalMemory for TLC.                         *)
(***************************************************************************)
EXTENDS TransactionalMemory
=============================================================================
