SPECIFICATION FairSpec
CONSTANTS
  StrTm = {s1}
  StrTmValues = {6, 7}
  ValueCount = 1
  NumEntrValues = {0, 1}
  SchdIntvValues = {0, 2}
  AccessSettings <- ReserveAccess
  ConfNumEntr = 1
  ConfSchdIntv = 2
  BootTime = 5
  MaxTime = 10
PROPERTIES RunsEnd PlannedStartHappens
CHECK_DEADLOCK FALSE
