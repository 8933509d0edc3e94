SPECIFICATION RestartSpec
CONSTANTS
  s1 = s1
  s2 = s2
  s3 = s3
  entity1 = entity1
  entity2 = entity2
  Schedules = {s1, s2}
  Server = Server
  NULL = NULL
  SchdRefs <- OneRef
  ConfSchdRef <- ConfOne
  ConfSchedules <- OneSchedule
  RefTargets = {s1, s2}
  PrioTargets = {}
  Prios = {1, 2}
  ConfPrio = 1
  StartTimes = {1}
  Entries = 1
  EntryDuration = 1
  TargetIsMV = TRUE
  MaxTime = 1
  CtlEnts = {entity1, entity2}
  ConfCtlEnt = entity1
  NoFile = NoFile
  Torn = Torn
  MaxCrashes = 2
INVARIANTS
  FileHoldsReferences
  ReferencesTakeEffect
  SettlesOnWinner
  OutputSettles
CHECK_DEADLOCK FALSE
