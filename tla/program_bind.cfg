\* Programs bound, bound again after a failure, moved bound or not, assigned and
\* destroyed.  Two objects of a kind make room for one bind that failed; a third
\* program stands beside two that a move parted.
SPECIFICATION Spec
CONSTANTS
  Programs = {p1, p2, p3}
  Ids = {i1, i2}
  Null = Null
SYMMETRY Symmetry
INVARIANTS
  TypeOK
  Coherent
  OwnedOnce
  LostByRetryOnly
