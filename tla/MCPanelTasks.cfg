SPECIFICATION Spec
CONSTANTS
  Windows = {w1, w2}
  None = None
  MaxClients = 2
  t1 = t1
  t2 = t2
  t3 = t3
  Texts = {t1, t2, t3}
  Room <- RoomOf
  Points = {110}
  MaxUnread = 2
INVARIANTS
  TypeOK
  ListCurrent
  MarksCurrent
  PictureMatches
CONSTRAINT OneAtATime
SYMMETRY Symmetric
