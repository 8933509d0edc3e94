SPECIFICATION Spec
CONSTANTS
  s1 = s1
  s2 = s2
  s3 = s3
  Schedules = {s1, s2}
  Server = Server
  NULL = NULL
  SchdRefs <- TwoRefs
  ConfSchdRef <- ConfTwo
  ConfSchedules <- TwoSchedules
  PrioTargets = {s1}
  Prios = {1, 2}
  ConfPrio = 1
  StartTimes = {1, 5}
  Entries = 2
  EntryDuration = 2
  TargetIsMV = FALSE
  MaxTime = 5
INVARIANTS
  TypeOK
  SettlesOnWinner
  ArbitrationIsWinner
  OutputSettles
CHECK_DEADLOCK FALSE
