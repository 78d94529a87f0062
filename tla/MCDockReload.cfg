SPECIFICATION FairSpec
CONSTANTS
  Docks = {d1, d2}
  None = None
INVARIANTS
  TypeOK
  NewsIsUnderWay
  NoRequestForgotten
  OneDockButForStrays
PROPERTIES
  AwakeDockReloads
  NewsIsAccepted
