SPECIFICATION FairSpec
CONSTANTS
  Futures = {f1}
  WithTasks = {w}
  IdleTasks = {}
  DriveTasks = {d}
  OnPromise = {}
  OnChannel = {}
  Events = {e1}
  Calls = {"run", "job"}
  MaxJobs = 2
  MaxRuns = 1
  MaxPanics = 0
  NoTask = NoTask
  Loop = Loop
INVARIANTS DriveWatchesExecutor JobsInOrder
PROPERTIES IdleMeansDone BodyCompletes DriveCompletesFutures RunReturns
CHECK_DEADLOCK FALSE
