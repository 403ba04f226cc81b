SPECIFICATION FairSpec
CONSTANTS
  Futures = {f1}
  WithTasks = {}
  IdleTasks = {i}
  DriveTasks = {}
  OnPromise = {}
  OnChannel = {f1}
  Events = {e1}
  Calls = {"run"}
  MaxJobs = 0
  MaxRuns = 0
  MaxPanics = 0
  NoTask = NoTask
  Loop = Loop
PROPERTY IdleServesLoop
CHECK_DEADLOCK FALSE
