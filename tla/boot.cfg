SPECIFICATION MCSpec
CONSTANTS
  Threads = {t1, t2}
  NoThread = NoThread
  MaxCalls = 2
  MaxFiles = 2
  MaxEvals = 2
  MaxWork = 2
INVARIANTS TypeOK VmAfterInit ModesAgreeUnlessRaced
INVARIANTS HookSilencedByAnother RejectionReflected
PROPERTY StartsOnWholeRunner
CHECK_DEADLOCK FALSE
