------------------------------ MODULE MCCatalog ------------------------------
(* A small instance of Catalog for TLC. *)
EXTENDS Catalog, TLC

ThreadSymmetry == Permutations(Threads)
=============================================================================
