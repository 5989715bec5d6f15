SPECIFICATION FairSpec
CONSTANTS
  Node = {n1, n2, n3, n4}
  Handle = {h1, h2}
  NULL = NULL
  MaxSub = 2
  MaxRef = 2
INVARIANTS HeapInv NoDangling NothingLeaks
PROPERTIES DestroyEnds
