SPECIFICATION Spec
CONSTANTS
  StrTm = {s1}
  StrTmValues = {6, 7}
  ValueCount = 1
  NumEntrValues = {0, 1}
  SchdIntvValues = {0, 2}
  AccessSettings <- OneAccess
  ConfNumEntr = 1
  ConfSchdIntv = 2
  BootTime = 5
  MaxTime = 10
PROPERTY DisableSticks
CHECK_DEADLOCK FALSE
