\* The same two processes, and the merge of one item by both.
CONSTANTS
  Clients = {c1, c2}
  Ids = {q1, q2}
  Snapshots = {g1, g2}
  Unreadable = Unreadable
SPECIFICATION Spec
INVARIANTS
  NeverMergedAgain
