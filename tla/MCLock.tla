------------------------------- MODULE MCLock -------------------------------
(* Lock for model checking: symmetric threads. *)
EXTENDS Lock, TLC

Symmetry == Permutations(Readers) \cup Permutations(Writers)
=============================================================================
