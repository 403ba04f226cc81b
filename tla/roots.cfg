SPECIFICATION Spec
CONSTANTS
  Cells = {c1, c2}
  NoCell = NoCell
  Keys = {k}
  MaxEntries = 1
  MaxHandles = 2
  MaxInstances = 2
  MaxNesting = 2
  MaxReentered = 1
INVARIANTS TypeOK HeldIsLive NothingElseLeaks DroppedWithInstance
CHECK_DEADLOCK FALSE
