CONSTANTS
  Threads = {t1, t2}
  Admin = Admin
  None = None
  Paths = {"bio", "cdev", "ioctl"}
  MaxVol = 2
  MaxTag = 2

SYMMETRY MCSymmetry

SPECIFICATION Spec

INVARIANT TypeOK
PROPERTY ReadsAtomic
PROPERTY DurableOnReturn
INVARIANT ZilogSingle
PROPERTY LoggedWithOpenLog
PROPERTY NoBioTransferPastEnd
