SPECIFICATION PeriodicSpec
CONSTANTS
  s1 = s1
  StrTm = {s1}
  StrTmOrder <- OneStrTm
  StrTmValues = {}
  ValueCount = 1
  NumEntrValues = {1}
  SchdIntvValues = {0, 2}
  AccessSettings <- OneAccess
  ConfNumEntr = 1
  ConfSchdIntv = 2
  BootTime = 4
  MaxTime = 9
  SetCals <- Hourly
  ConfSetCal <- HourlyConf
  TicksPerMinute = 2
  MinutesPerHour = 2
  HoursPerDay = 2
  SetCalReturns = {TRUE, FALSE}
INVARIANTS PeriodicTypeOK NeverEarly RunIsReported PlansOccurrence
PROPERTIES OncePerHour StaysEnabled
CHECK_DEADLOCK FALSE
