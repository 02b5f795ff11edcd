CONSTANTS
  Threads = {t1, t2}
  Creator = creator
  Renamer = renamer
  Remover = remover
  Existing = {FALSE}
  None = none
  MaxRename = 2
SYMMETRY MCSymmetry
SPECIFICATION Spec
INVARIANT TopologyReleased
CHECK_DEADLOCK FALSE
