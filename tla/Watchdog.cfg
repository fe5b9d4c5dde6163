\* One watchdog; three child handles, of which one may be dying, one stopped and one new.
CONSTANTS
  c1 = c1
  c2 = c2
  c3 = c3
  Children = {c1, c2, c3}
  NoChild = NoChild
  MaxRestarts = 3
SPECIFICATION Spec
INVARIANTS
  TypeOK
  OneOwnedDaemon
  StopLeavesNothing
PROPERTIES
  HungDaemonIsReplaced
  StopEnds
