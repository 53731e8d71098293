---------------------------- MODULE MCMacServing ----------------------------
(***************************************************************************)
(* Instances of the Mac serving plane for TLC.                             *)
(***************************************************************************)
EXTENDS MacServing, TLC

CONSTANTS r1, r2, r3

RequestSymmetry == Permutations(Requests)
=============================================================================
