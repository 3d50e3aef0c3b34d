SPECIFICATION SpecOfParts
CONSTANTS
  s = s
  c = c
  p1 = p1
  p2 = p2
  Item = {s, c}
  Short = {s}
  Code = {c}
  Worth = 1
  Type = "EXAM"
  Pretest = TRUE
  Booked = TRUE
  Threshold = 1
  WarnAt = 2
  CancelAt = 5
  Process <- TwoProcesses
  None = None
  MaxSeverity = 6
  MaxAwarded = 20
INVARIANTS TypeOK ReviewedBeforePublished AwardInRange WarningBudget CancelledAtMost ScoreIsSum
SYMMETRY Processes
