\* Binds of one and of two arrays, moved and destroyed in between.
SPECIFICATION Spec
SYMMETRY Symmetry
CONSTANTS
  b1 = b1
  b2 = b2
  b3 = b3
  Arrays = {a1, a2}
  Buffers <- MCBuffers
  Sizes = {1, 3}
  Word = 3
  MaxArgs = 2
  Null = Null
INVARIANTS
  TypeOK
  ReadsGiven
  ReadsLiveBuffers
  LayoutOfPipeline
