------------------------- MODULE MCServiceLifecycle -------------------------
(***************************************************************************)
(* ServiceLifecycle with a gateway as its only service.                    *)
(***************************************************************************)
EXTENDS ServiceLifecycle

CONSTANT gate
=============================================================================
