CONSTANTS
  Threads = {t1, t2}
  Renamer = renamer
  Remover = remover
  Creator = creator
  Existing = {TRUE}
  Taskq = taskq
  None = none
  MaxRename = 2
  MaxBio = 2
SYMMETRY MCSymmetry
SPECIFICATION Spec
INVARIANT IOHasObjset
CHECK_DEADLOCK FALSE
