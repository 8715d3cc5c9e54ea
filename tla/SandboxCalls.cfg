SPECIFICATION Spec
CONSTANTS
  Calls = {c1, c2, c3}
  NoCall = none
  Ignored = ignored
  Budgets <- SmallBudgets
INVARIANT TypeOK
INVARIANT SlotsHeld
INVARIANT OwnAnswer
INVARIANT NothingForgotten
INVARIANT FrameIsThere
INVARIANT Agreement
 
PROPERTY CallsEnd
CHECK_DEADLOCK FALSE
