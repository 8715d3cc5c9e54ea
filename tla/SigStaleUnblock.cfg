SPECIFICATION Spec
CONSTANTS
  Sandboxes = {s1}
  First = s1
  Platforms = {"windows"}
  CounterMod = 4
  Budgets <- GroupBudgets
INVARIANT DoneMeansFinished
