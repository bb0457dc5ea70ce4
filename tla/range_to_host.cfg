SPECIFICATION Spec
CONSTANTS
  Byte <- MCByte
  ElemSize = 2
  Size = 2
  Word = 5
  Inputs <- MCInputs
  MaxIndex = 3
  Funcs <- MCFuncs
  Null = Null
INVARIANTS RangeDelivered
