SPECIFICATION LiveSpec
CONSTANTS
  Sandboxes = {s1}
  First = s1
  Platforms = {"linux"}
  CounterMod = 4
  Budgets <- DeactivateBudgets
PROPERTY CycleReturns
