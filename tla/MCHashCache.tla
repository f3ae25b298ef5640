---------------------------- MODULE MCHashCache ----------------------------
(***************************************************************************)
(* One hash of two fields, each with a writer of its own.                  *)
(***************************************************************************)
EXTENDS HashCache, TLC

CONSTANTS f1, f2, c1, c2

MCOwner == f1 :> c1 @@ f2 :> c2
MCUses == c1 :> {"Set", "Push", "Remove"} @@ c2 :> {"Get", "GetAll", "Set"}
MCCalls == c1 :> 2 @@ c2 :> 2
MCModes == {{"redis", "mysql"}, {"mysql"}, {"redis"}}
=============================================================================
