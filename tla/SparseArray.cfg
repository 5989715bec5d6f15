SPECIFICATION Spec
CONSTANTS
  Obj = {o1, o2}
  Value = {v1, v2}
  Junk = Junk
  MaxMax = 2
  Garbage = {1}
  Half = 8
INVARIANTS SparseInv HasIndexExact
PROPERTIES RefinesMap
SYMMETRY Interchangeable
