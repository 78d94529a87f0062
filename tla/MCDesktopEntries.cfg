SPECIFICATION Spec
CONSTANTS
  Apps = {a1, a2}
  Windows = {w1, w2}
  Cats = {c1, c2}
  Mapped <- MCMapped
  None = None
  a1 = a1
  a2 = a2
  c1 = c1
  c2 = c2
SYMMETRY
  Symmetry
CONSTRAINT
  OneUpdated
INVARIANTS
  TypeOK
  ChoicesKept
  SyncReflectsScan
  CategoryFollowsOverride
PROPERTY
  OnlyTheUserChooses
