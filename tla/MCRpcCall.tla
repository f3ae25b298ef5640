----------------------------- MODULE MCRpcCall -----------------------------
(***************************************************************************)
(* RpcCall with two nodes, one user and two goroutines that make calls.    *)
(***************************************************************************)
EXTENDS RpcCall, TLC

CONSTANTS c1, c2

\* one serves the user's connection, the other calls for the user
RequestAndService == (c1 :> {sendMessage}) @@ (c2 :> {SendAsyncRPCMessage, SendNoReplyRPCMessage, NewBindRPCContext})

Symmetry == Permutations(Node)
=============================================================================
