SPECIFICATION Spec
CONSTANTS
  Futures = {f1, f2}
  WithTasks = {w}
  IdleTasks = {i}
  DriveTasks = {}
  OnPromise = {f1}
  OnChannel = {w}
  Events = {e1}
  Calls = {"run", "finish"}
  MaxJobs = 0
  MaxRuns = 1
  MaxPanics = 1
  NoTask = NoTask
  Loop = Loop
INVARIANTS TypeOK EachHeldOnce NoLostWakeup
PROPERTIES IdleMeansDone ImplementsWorkPool
CHECK_DEADLOCK FALSE
