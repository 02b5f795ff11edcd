CONSTANTS
  Threads = {t1, t2}
  Admin = Admin
  None = None
  Paths = {"cdev"}
  MaxVol = 2
  MaxTag = 2

SYMMETRY MCSymmetry

SPECIFICATION Spec

PROPERTY NoTransferPastEnd
