\* Two writers replacing the same one-part pack at the same time.
CONSTANTS
  sweep = sweep
  miner = miner
  part1 = part1
  part2 = part2
  old1 = old1
  old2 = old2
  legacy = legacy
  doc = doc
  n1 = n1
  n2 = n2
  n3 = n3
  n4 = n4
  Writers = {sweep, miner}
  SourceIds = {old1, n1, n2, n3}
  Parts = {part1}
  OtherPack = OtherPack
  Document = Document
  ExpectedCounts <- MCCounts
  ReuseChoices = {TRUE, FALSE}
  Existing <- MCExistingOnePart
  InitialStatus = {"active"}
SPECIFICATION Spec
INVARIANTS
  NeverWithoutPack
