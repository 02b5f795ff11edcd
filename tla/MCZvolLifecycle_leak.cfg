CONSTANTS
  Threads = {t1, t2}
  Renamer = renamer
  Remover = remover
  Creator = creator
  Existing = {FALSE}
  Taskq = taskq
  None = none
  MaxRename = 2
  MaxBio = 2
SYMMETRY MCSymmetry
SPECIFICATION Spec
INVARIANT CdevBacksRegistered
CHECK_DEADLOCK FALSE
