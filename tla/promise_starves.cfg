SPECIFICATION FairSpec
CONSTANTS
  Futures = {f1, f2}
  WithTasks = {w}
  IdleTasks = {}
  DriveTasks = {}
  OnPromise = {f1}
  OnChannel = {}
  Events = {e1}
  Calls = {"run"}
  MaxJobs = 0
  MaxRuns = 0
  MaxPanics = 0
  NoTask = NoTask
  Loop = Loop
PROPERTY SiblingsProgress
CHECK_DEADLOCK FALSE
