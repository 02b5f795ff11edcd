CONSTANTS
  Submitters = {s1, s2}
  Cpus = {c1, c2}
  Buckets = {b1, b2}
  TqCnt = 2
  TqThreads = 1
  HashMax = 2
  MaxReq = 3

SYMMETRY MCSymmetry

SPECIFICATION Spec

INVARIANT TypeOK
INVARIANT RequestAccounted
INVARIANT SameShardInOrder
