------------------------------ MODULE MCMemory ------------------------------
(* Instances of Memory for TLC. *)
EXTENDS Memory, TLC

\* Three operations altogether.
Few == \A g, h \in Generations : g # h => generation[g].asked + generation[h].asked <= 3

Symmetry == Permutations(Generations) \cup Permutations(Values)
=============================================================================
