---------------------------- MODULE MCGateLogin ----------------------------
(***************************************************************************)
(* GateLogin with two connections, each on a node of its own or both on    *)
(* the same node.                                                          *)
(***************************************************************************)
EXTENDS GateLogin, TLC

CONSTANTS c1, c2, n1, n2

TwoNodes == c1 :> n1 @@ c2 :> n2
OneNode  == c1 :> n1 @@ c2 :> n1
=============================================================================
