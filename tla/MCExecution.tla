------------------------------- MODULE MCExecution -------------------------------
(***************************************************************************)
(* Instances of Execution, with the bodies of MCStatements.                *)
(***************************************************************************)
EXTENDS Execution, MCStatements
=============================================================================
