SPECIFICATION Spec
CONSTANTS
  gap03 = gap03
  x = x
  bad = bad
  end = end
  fileG = fileG
  fileX = fileX
  Gaps = {gap03}
  Findings = {x, bad, end}
  Valid = {x, end}
  Gap <- MCGap
  Terminated <- MCTerminated
  Files = {fileG, fileX}
  FindingsFile <- MCFindingsFile
  Prefixed <- MCPrefixed
  NoFinding = NoFinding
  MaxDrops = 2
  MaxCrashes = 1
INVARIANTS TypeOK EvidenceKeptOnce EvidenceIsUpForReview
PROPERTY SignalledIsConsumed
