--------------------------- MODULE MCResumeWindow ---------------------------
(***************************************************************************)
(* ResumeWindow with two connections of the user.                          *)
(***************************************************************************)
EXTENDS ResumeWindow
=============================================================================
