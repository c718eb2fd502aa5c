------------------------------ MODULE MCKernel ------------------------------
(* Kernel with two ids and one kind: four edges, self-loops included.       *)
EXTENDS Kernel, TLC
Symmetry == Permutations(Ids)
=============================================================================
