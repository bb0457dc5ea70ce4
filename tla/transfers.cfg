\* Any offset, count and length up to three on an array of two elements.
SPECIFICATION Spec
CONSTANTS
  Byte <- MCByte
  ElemSize = 2
  Size = 2
  Word = 5
  Inputs <- MCInputs
  MaxIndex = 3
  Funcs <- MCFuncs
  Null = Null
INVARIANTS
  TypeOK
  MappedByThrowOnly
PROPERTIES
  SoundStaysInside
  ImplementsElementArray
