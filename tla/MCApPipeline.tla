---------------------------- MODULE MCApPipeline ----------------------------
(* Symmetry for model checking ApPipeline: turns, sessions and, when every    *)
(* document loads, documents are interchangeable.                            *)
EXTENDS ApPipeline, TLC

TurnSymmetry == Permutations(Turns)
FullSymmetry ==
  Permutations(Turns) \cup Permutations(Sessions) \cup Permutations(Docs)
=============================================================================
