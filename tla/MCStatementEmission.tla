------------------------ MODULE MCStatementEmission ------------------------
(* StatementEmission on small programs; see StatementEmission.cfg. *)
EXTENDS StatementEmission
=============================================================================
