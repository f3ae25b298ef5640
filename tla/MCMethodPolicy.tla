--------------------------- MODULE MCMethodPolicy ---------------------------
(***************************************************************************)
(* MethodPolicy with two callers.                                          *)
(***************************************************************************)
EXTENDS MethodPolicy
=============================================================================
