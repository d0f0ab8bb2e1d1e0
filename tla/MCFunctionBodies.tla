-------------------------- MODULE MCFunctionBodies --------------------------
(***************************************************************************)
(* Small instances of FunctionBodies for TLC.                              *)
(***************************************************************************)
EXTENDS FunctionBodies
=============================================================================
