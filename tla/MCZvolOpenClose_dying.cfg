CONSTANTS
  Threads <- MCThreads
  NsThreads <- MCNsThreads
  Admin = Admin
  Remover = Remover
  None = None
  VolModes = {"geom"}
  MaxHeld = 1

SPECIFICATION Spec

PROPERTY NoOpenAfterDying
