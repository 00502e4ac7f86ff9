------------------------- MODULE MCSchemaBootstrap -------------------------
(***************************************************************************)
(* An instance of SchemaBootstrap for TLC.                                 *)
(***************************************************************************)
EXTENDS SchemaBootstrap

MCRunIds == {"r1", "r2", "r3"}
=============================================================================
