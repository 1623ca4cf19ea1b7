---------------------------- MODULE MCLLMQueue ----------------------------
(* Symmetry for the TLC runs of LLMQueue.                                  *)
EXTENDS LLMQueue, TLC

Symmetry == Permutations(Tasks) \cup Permutations(Workers)
=============================================================================
