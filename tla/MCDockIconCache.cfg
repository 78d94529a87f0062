SPECIFICATION Spec
CONSTANTS
  fire = fire
  firePng = firePng
  mail = mail
  term = term
  files = files
  blank = blank
  kFire = kFire
  kMail = kMail
  kTerm = kTerm
  kFiles = kFiles
  Names = {fire, firePng, mail, term, files, blank}
  Keys = {kFire, kMail, kTerm, kFiles}
  NoKey = NoKey
  Norm <- MCNorm
  Cells = {c1, c2, c3, c4}
  Null = Null
  NoIcon = NoIcon
  Capacity = 3
INVARIANTS
  TypeOK
  ListIntact
  MapAgrees
  SurfacesAccounted
PROPERTY
  LruSpec
