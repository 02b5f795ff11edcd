------------------------------- MODULE MCZvolGeom -------------------------------
(* ZvolGeom for TLC: threads are model values and interchangeable.        *)
EXTENDS ZvolGeom, TLC

MCSymmetry == Permutations(Threads)
=============================================================================
