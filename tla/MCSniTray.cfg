SPECIFICATION Spec
CONSTANTS
  Clients = {c1, c2}
  Names = {n1}
  None = None
  MaxMessages = 3
INVARIANTS
  TypeOK
  UniqueServices
  NoGhost
  ClicksReachTheirItem
PROPERTIES
  LiveItemsStay
CONSTRAINT FewInFlight
SYMMETRY Symmetric
