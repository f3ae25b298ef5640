--------------------------- MODULE MCWriteBehind ---------------------------
(***************************************************************************)
(* WriteBehind on small instances.  Keys and clients are interchangeable,  *)
(* so the safety run uses them as symmetry sets.                           *)
(***************************************************************************)
EXTENDS WriteBehind, TLC

Symmetry == Permutations(Key) \cup Permutations(Client)
=============================================================================
