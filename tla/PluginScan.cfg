SPECIFICATION MCSpec
CONSTANTS
  Groups = {g1, g2}
  Sandboxes = {s1, s2}
  Devices = {d1, d2}
  NoSandbox = none
  Budgets <- SmallBudgets
  f1 = f1
  f2 = f2
  p = p
  Files = {f1, f2}
  Listing = listing
  Contents <- TwoVersions
  Wanted = p
  MaxScans = 2
SYMMETRY Symmetry
INVARIANT TypeOK
INVARIANT Containment
INVARIANT MarkedHasContent
INVARIANT ConnectionsResolve
INVARIANT RemoteIsThere
INVARIANT ScanTypeOK
INVARIANT BestIsKnown
 
INVARIANT CompleteMeansAll
PROPERTY ErasedForGood
CHECK_DEADLOCK FALSE
