---------------------------- MODULE MCZvolLifecycle ----------------------------
(* ZvolLifecycle for TLC: threads are model values and interchangeable.   *)
EXTENDS ZvolLifecycle, TLC

MCSymmetry == Permutations(Threads)
=============================================================================
