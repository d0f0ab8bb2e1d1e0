------------------------- MODULE MCAtomicStatements -------------------------
(***************************************************************************)
(* Small instances of AtomicStatements for TLC.                            *)
(***************************************************************************)
EXTENDS AtomicStatements
=============================================================================
