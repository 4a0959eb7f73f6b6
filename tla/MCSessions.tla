----------------------------- MODULE MCSessions -----------------------------
(* A small instance of Sessions for TLC. *)
EXTENDS Sessions, TLC

Symmetries == Permutations(Users) \cup Permutations(Docs) \cup Permutations(Instances)
=============================================================================
