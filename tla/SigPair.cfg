SPECIFICATION Spec
CONSTANTS
  Sandboxes = {s1, s2}
  First = s1
  Platforms = {"windows"}
  CounterMod = 4
  Budgets <- PairBudgets
INVARIANT EverySandboxServed
