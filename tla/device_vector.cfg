\* Two physical devices: the vector of devices has to grow.
SPECIFICATION Spec
CONSTANTS
  Objects = {o1, o2, o3}
  Handles = {h1, h2, h3}
  PhysCount = 2
  FamilyLists <- OneFamily
  Faults = {}
  ClientMoves = FALSE
  Null = Null
SYMMETRY Symmetry
INVARIANTS
  VectorUsable
