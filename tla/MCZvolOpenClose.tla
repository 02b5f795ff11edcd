--------------------------- MODULE MCZvolOpenClose ---------------------------
(* Model-checking instance of ZvolOpenClose: two opener threads, one of    *)
(* which opens with spa_namespace_lock held (a pool using the zvol as a   *)
(* vdev), one administrative suspender and one remover.                   *)
EXTENDS ZvolOpenClose

MCThreads == {"t1", "t2"}
MCNsThreads == {"t2"}

=============================================================================
