SPECIFICATION FairRestartSpec
CONSTANTS
  StrTm = {s1}
  StrTmValues = {4, 5}
  ValueCount = 1
  NumEntrValues = {1}
  SchdIntvValues = {0, 2}
  AccessSettings <- OneAccess
  ConfNumEntr = 1
  ConfSchdIntv = 2
  BootTime = 3
  MaxTime = 7
  NoFile = NoFile
  Torn = Torn
  NoImage = NoImage
  MaxCrashes = 1
INVARIANTS RestartTypeOK NeverEarly FileCurrent
PROPERTIES RunsOnce ResumedRunEnds
CHECK_DEADLOCK FALSE
