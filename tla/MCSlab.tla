------------------------------- MODULE MCSlab -------------------------------
EXTENDS Slab, TLC

Symmetry == Permutations(RAM)
=============================================================================
