----------------------------- MODULE MCDocuments -----------------------------
(* A small instance of Documents for TLC: a user with a folder, and names of the
   parser's formats that may stand for each other. *)
EXTENDS Documents, TLC

Symmetries == Permutations(Parsable) \cup Permutations(Jobs)
=============================================================================
