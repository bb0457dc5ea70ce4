SPECIFICATION Spec
SYMMETRY Symmetry
CONSTANTS
  d1 = d1
  d2 = d2
  v1 = v1
  v2 = v2
  v3 = v3
  r1 = r1
  r2 = r2
  r3 = r3
  Devices <- MCDevices
  VkDevices <- MCVkDevices
  Objects = {a1, a2, h1, h2}
  Hosts = {h1, h2}
  Temp = Temp
  Resources <- MCResources
  Gone = Gone
  Null = Null
INVARIANTS NoexceptHolds
CHECK_DEADLOCK FALSE
