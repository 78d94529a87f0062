SPECIFICATION Spec
CONSTANTS
  root = root
  docs = docs
  work = work
  Dirs = {root, docs, work}
  Home = docs
  Parent <- MCParent
  NoDir = NoDir
  MaxLoads = 5
INVARIANTS
  TypeOK
  IdleToolbarTrue
  IconsFollow
PROPERTIES
  NewestShown
  TrailKept
CONSTRAINT OneOvertaken
