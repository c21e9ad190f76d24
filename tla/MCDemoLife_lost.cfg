CONSTANTS
  Scheduler = "scheduler"
  Listener = "listener"
  Status = "status"
  Pool <- OneWorker
  MaxSignals = 1
SPECIFICATION Spec
INVARIANT WorkerStopKept
