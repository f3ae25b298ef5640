----------------------------- MODULE MCGateConn -----------------------------
(***************************************************************************)
(* GateConn with a client that has one sending goroutine.                  *)
(***************************************************************************)
EXTENDS GateConn, TLC

CONSTANT s1
=============================================================================
