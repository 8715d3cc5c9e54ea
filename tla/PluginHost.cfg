SPECIFICATION LiveSpec
CONSTANTS
  HostEdits = {h1}
  OwnEdits = {o1}
  Rates = {1, 2}
  MaxActivates = 2
  MaxDeactivates = 1
  MaxRequests = 1
  MaxFailures = 1
INVARIANT TypeOK
INVARIANT FlushIsExclusive
INVARIANT ProcessOnlyStarted
INVARIANT NoEditForgotten
PROPERTY DirtyIsSaved
PROPERTY WakesUp
