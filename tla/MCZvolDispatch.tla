---------------------------- MODULE MCZvolDispatch ----------------------------
(* Model-checking instance of ZvolDispatch: the submitters are model      *)
(* values and interchangeable, as are the cpus and the offset buckets   *)
(* (the hash ranges over every function of them), so their permutations *)
(* are symmetries.                                                        *)
EXTENDS ZvolDispatch, TLC

MCSymmetry == Permutations(Submitters) \cup Permutations(Cpus) \cup Permutations(Buckets)
=============================================================================
