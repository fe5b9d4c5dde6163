SPECIFICATION Spec
CONSTANTS
  a = a
  b = b
  sa = sa
  t1 = t1
  t2 = t2
  d = d
  Notebooks = {a, b}
  Sources = {sa, t1, t2}
  DiskIds = {d}
  Order <- MCOrder
  CadenceKey = CadenceKey
  SourcesOf <- MCSourcesOf
  Disk <- MCDisk
  WithPrefix = {b}
  MaxChanges = 3
  MaxCrashes = 1
INVARIANTS TypeOK MinedBeforeRemembered FactsFollowRemovals
PROPERTY AddedIsTakenUp
