SPECIFICATION FairSpec
CONSTANTS
  HideDelay = 2
  ToggleGap = 1
  ClickHold = 1
  LongHold = 2
  PopupTime = 2
  MaxEvents = 2
INVARIANTS
  TypeOK
  StackFollows
PROPERTIES
  DeadlineHonoured
  LeftDockHides
  EdgeShows
