SPECIFICATION Spec
CONSTANTS
  s1 = s1
  s2 = s2
  s3 = s3
  Schedules = {s1, s2}
  Server = Server
  NULL = NULL
  SchdRefs <- TwoRefs
  ConfSchdRef <- ConfTwo
  ConfSchedules <- TwoSchedules
  PrioTargets = {s2}
  Prios = {1, 2}
  ConfPrio = 1
  StartTimes = {1, 2}
  Entries = 1
  EntryDuration = 1
  TargetIsMV = TRUE
  MaxTime = 2
PROPERTY OutputFollowsPrio
CHECK_DEADLOCK FALSE
