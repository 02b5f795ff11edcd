CONSTANTS
  Threads <- MCThreads
  NsThreads <- MCNsThreads
  Admin = Admin
  Remover = Remover
  None = None
  VolModes = {"geom", "dev"}
  MaxHeld = 1

SPECIFICATION FairSpec

INVARIANT TypeOK
INVARIANT OpenCountAccurate
INVARIANT VolumeStateCoherent
INVARIANT ExclusiveSole
INVARIANT NoCircularWait
PROPERTY NoOwnershipChangeWhileSuspended
PROPERTY CallsReturn
PROPERTY OpenStateRefined
PROPERTY RemovedCountFrozen
