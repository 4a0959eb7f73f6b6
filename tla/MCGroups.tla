------------------------------ MODULE MCGroups ------------------------------
(* A small instance of Groups for TLC. *)
EXTENDS Groups, TLC

CodeSymmetry == Permutations(GroupIds)
=============================================================================
