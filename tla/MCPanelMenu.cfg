SPECIFICATION Spec
CONSTANTS
  e1 = e1
  e2 = e2
  Names <- MCNames
  Paths <- MCPaths
  Norm <- MCNorm
  Keys <- MCKeys
  NoKey = NoKey
  Stem <- MCStem
  Places <- MCPlaces
  Installed <- MCInstalled
  Capacity = 2
  Surfaces <- MCSurfaces
  Pool <- MCPool
  Holders <- MCHolders
  Entries = {e1, e2}
  Category <- MCCategory
  Label <- MCLabel
  Icon <- MCIcon
  None = None
  Symbolic <- MCSymbolic
  Tools <- MCTools
  CatIcons <- MCCats
  Generic = "nizam"
  Launcher = "nizam"
  TaskIcon = "mail"
  MaxNow = 1
  MaxEdits = 2
INVARIANTS
  TypeOK
  SubmenuCurrent
  EveryReferenceCounted
PROPERTY
  LruSpec
  LiveUpdates
