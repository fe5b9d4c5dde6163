\* Two CLI processes, two queue ids, two snapshots, a base anyone rewrites.
CONSTANTS
  Clients = {c1, c2}
  Ids = {q1, q2}
  Snapshots = {g1, g2}
  Unreadable = Unreadable
SPECIFICATION Spec
INVARIANTS
  TypeOK
  FailClosed
  RecordedMergeHappened
  AnnouncedWhileSerial
  EnqueuedIsKeptWhileSerial
PROPERTIES
  MergedIsFinalWhileSerial
