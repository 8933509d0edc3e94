SPECIFICATION Spec
CONSTANTS
  StrTm = {s1, s2}
  StrTmValues = {8, 10}
  ValueCount = 2
  NumEntrValues = {2, 3}
  SchdIntvValues = {0, 2}
  AccessSettings <- OneAccess
  ConfNumEntr = 2
  ConfSchdIntv = 2
  BootTime = 7
  MaxTime = 14
INVARIANTS TypeOK NeverEarly RunIsReported
PROPERTIES StartTimesIncrease EntriesInOrder ImplementsExecution
CHECK_DEADLOCK FALSE
