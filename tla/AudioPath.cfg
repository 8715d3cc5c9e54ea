SPECIFICATION Spec
CONSTANTS
  d1 = d1
  d2 = d2
  d3 = d3
  s1 = s1
  s2 = s2
  Devices = {d1, d2, d3}
  Sandboxes = {s1, s2}
  Homes <- Around
  Fed = {d1}
  First = s1
  Played = {d1, d2}
  Params = {d1}
  PortSize = 2
  MaxAge = 3
  Budgets <- SmallBudgets
INVARIANT TypeOK
 
 
