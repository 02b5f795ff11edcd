CONSTANTS
  Threads = {t1, t2}
  Creator = creator
  Renamer = renamer
  Remover = remover
  Existing = {TRUE}
  None = none
  MaxRename = 2
SYMMETRY MCSymmetry
SPECIFICATION Spec
INVARIANT NoUseAfterFree
CHECK_DEADLOCK FALSE
