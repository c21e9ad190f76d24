CONSTANTS
  Scheduler = "scheduler"
  Listener = "listener"
  Status = "status"
  Pool <- TwoWorkers
  MaxSignals = 2
SPECIFICATION FairSpec
INVARIANTS FreedAfterUse WorkersFirst
PROPERTIES SchedulerStopKept StopEndsProcess
