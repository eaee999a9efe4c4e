SPECIFICATION Spec
CONSTANTS
  c1 = c1
  c2 = c2
  Context <- MCContext
  Dim = 2
  Files <- MCFiles
  Orders <- MCOrders
  Absent = Absent
  NoOrder = NoOrder
  FailMax = 1
SYMMETRY Symmetry
INVARIANTS
  BackendsAgree
