\* Devices enumerated, copied, moved, assigned, swapped, destroyed; all can fail.
SPECIFICATION Spec
CONSTANTS
  Objects = {o1, o2, o3}
  Handles = {h1, h2, h3}
  PhysCount = 2
  FamilyLists <- AllFamilyLists
  Faults = {"create", "compute pool", "compute buffer",
            "transfer pool", "transfer buffer"}
  ClientMoves = TRUE
  Null = Null
SYMMETRY Symmetry
INVARIANTS
  TypeOK
  SoleOwner
  NoneLeaked
  MostSpecialised
