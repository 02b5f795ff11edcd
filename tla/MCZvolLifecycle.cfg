CONSTANTS
  Threads = {t1, t2, t3}
  Renamer = renamer
  Remover = remover
  Creator = creator
  Existing = {TRUE, FALSE}
  Taskq = taskq
  None = none
  MaxRename = 2
  MaxBio = 3
SYMMETRY MCSymmetry
SPECIFICATION Spec
INVARIANT TypeOK OpenCountTracksHolders ObjsetIffOpen
PROPERTY OpenStateRefined
CHECK_DEADLOCK FALSE
