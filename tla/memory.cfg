\* A device array and two host arrays on devices with three memory types.
SPECIFICATION Spec
CONSTANTS
  X = X
  Y = Y
  Z = Z
  Arrays = {X, Y, Z}
  Kind <- DeviceAndHosts
  Buffers = {h1, h2}
  Memories = {m1, m2}
  NumTypes = 3
  FlagSets <- FewFlagSets
  BitSets <- FewBitSets
  Wanted <- SomeExtra
  Null = Null
INVARIANTS
  TypeOK
  FlagsTell
  MemorySuitsBuffer
  MappedForHostArrays
  OwnedOnce
  WeakerOnlyIfRefused
PROPERTIES
  ConstructorEnds
