-------------------------- MODULE MCFailureReplay --------------------------
(**************************************************************************)
(* FailureReplay with two tables.                                         *)
(**************************************************************************)
EXTENDS FailureReplay
============================================================================
