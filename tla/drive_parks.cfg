SPECIFICATION Spec
CONSTANTS
  Futures = {f1}
  WithTasks = {w}
  IdleTasks = {}
  DriveTasks = {}
  OnPromise = {}
  OnChannel = {}
  Events = {e1}
  Calls = {"run"}
  MaxJobs = 0
  MaxRuns = 0
  MaxPanics = 0
  NoTask = NoTask
  Loop = Loop
PROPERTY PendingOnlyWhenStuck
CHECK_DEADLOCK FALSE
