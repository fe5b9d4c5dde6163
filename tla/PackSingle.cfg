\* One writer, a two-part pack, an old generation and a legacy pack.
CONSTANTS
  sweep = sweep
  miner = miner
  part1 = part1
  part2 = part2
  old1 = old1
  old2 = old2
  legacy = legacy
  doc = doc
  n1 = n1
  n2 = n2
  n3 = n3
  n4 = n4
  Writers = {sweep}
  SourceIds = {old1, old2, legacy, n1, n2, n3}
  Parts = {part1, part2}
  OtherPack = OtherPack
  Document = Document
  ExpectedCounts <- MCCounts
  ReuseChoices = {TRUE, FALSE}
  Existing <- MCExisting
  InitialStatus = {"active"}
SPECIFICATION FairSpec
INVARIANTS
  TypeOK
  NeverStackSecondPack
  ResidueIsQuarantined
PROPERTIES
  ImplementsServing
  EveryRunEnds
