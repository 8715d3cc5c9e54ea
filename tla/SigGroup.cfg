SPECIFICATION Spec
CONSTANTS
  Sandboxes = {s1, s2}
  First = s1
  Platforms = {"windows", "macos"}
  CounterMod = 4
  Budgets <- GroupBudgets
INVARIANT TypeOK
INVARIANT DoneMeansQuiet
INVARIANT NeverOvernotified
INVARIANT SilenceOnlyAfterAbort
INVARIANT CycleAccounted
