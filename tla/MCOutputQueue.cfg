SPECIFICATION FairSpec
CONSTANTS
  Schedules = {schedule1, schedule2}
  Server = Server
  Worker = Worker
  Nobody = Nobody
  MaxOutputs = 1
INVARIANTS NothingLost NoUseAfterDestroy NoDeadlock
PROPERTIES OutputsHappen Ends
CHECK_DEADLOCK FALSE
