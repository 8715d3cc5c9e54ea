SPECIFICATION LiveSpec
CONSTANTS
  Sandboxes = {s1}
  First = s1
  Platforms = {"windows", "linux", "macos"}
  CounterMod = 4
  Budgets <- LiveBudgets
INVARIANT EverySandboxServed
 
PROPERTY DeadAreUncounted
PROPERTY StopReturns
