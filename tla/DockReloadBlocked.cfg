SPECIFICATION FairSpec
CONSTANTS
  Docks = {d1}
  None = None
PROPERTY
  ReflectedImmediately
