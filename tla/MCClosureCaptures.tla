------------------------- MODULE MCClosureCaptures -------------------------
(***************************************************************************)
(* Small instances of ClosureCaptures for TLC.                             *)
(***************************************************************************)
EXTENDS ClosureCaptures, TLC

\* Names are interchangeable.
Interchangeable == Permutations(Names)
=============================================================================
