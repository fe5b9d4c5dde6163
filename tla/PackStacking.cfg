\* Two writers uploading the same one-part pack to a notebook without one.
CONSTANTS
  sweep = sweep
  miner = miner
  part1 = part1
  part2 = part2
  old1 = old1
  old2 = old2
  legacy = legacy
  doc = doc
  n1 = n1
  n2 = n2
  n3 = n3
  n4 = n4
  Writers = {sweep, miner}
  SourceIds = {n1, n2}
  Parts = {part1}
  OtherPack = OtherPack
  Document = Document
  ExpectedCounts <- MCCounts
  ReuseChoices = {FALSE}
  Existing <- MCExistingNone
  InitialStatus = {"active"}
SPECIFICATION Spec
INVARIANTS
  NeverStackSecondPack
