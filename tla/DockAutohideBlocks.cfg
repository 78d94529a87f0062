SPECIFICATION Spec
CONSTANTS
  HideDelay = 2
  ToggleGap = 1
  ClickHold = 1
  LongHold = 2
  PopupTime = 2
  MaxEvents = 2
INVARIANT
  BlocksCorrectly
