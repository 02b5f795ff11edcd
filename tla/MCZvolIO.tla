------------------------------ MODULE MCZvolIO ------------------------------
(* Model-checking instance of ZvolIO: the I/O threads are model values and *)
(* interchangeable, so their permutations are a symmetry.                  *)
EXTENDS ZvolIO, TLC

MCSymmetry == Permutations(Threads)
=============================================================================
