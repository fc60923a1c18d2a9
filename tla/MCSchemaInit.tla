---------------------------- MODULE MCSchemaInit ----------------------------
(* Model values for SchemaInit.tla: a process of the latest release and one   *)
(* of the release before it, which race for the migrations both know.         *)
EXTENDS SchemaInit, TLC

CONSTANTS new, old

MCProcs == {new, old}
MCKnown == new :> Migrations @@ old :> Migrations - 1
=============================================================================
