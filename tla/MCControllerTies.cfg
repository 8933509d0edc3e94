SPECIFICATION RestartSpec
CONSTANTS
  s1 = s1
  s2 = s2
  s3 = s3
  entity1 = entity1
  entity2 = entity2
  Schedules = {s1, s2, s3}
  Server = Server
  NULL = NULL
  SchdRefs <- TwoRefs
  ConfSchdRef <- ConfTwo
  ConfSchedules <- TwoSchedules
  RefTargets = {s3}
  PrioTargets = {}
  Prios = {1, 2}
  ConfPrio = 1
  StartTimes = {1}
  Entries = 1
  EntryDuration = 1
  TargetIsMV = TRUE
  MaxTime = 1
  CtlEnts = {entity1}
  ConfCtlEnt = entity1
  NoFile = NoFile
  Torn = Torn
  MaxCrashes = 0
INVARIANT TiesByReferences
CHECK_DEADLOCK FALSE
