SPECIFICATION FairSpec
CONSTANTS
  s = s
  c = c
  p1 = p1
  p2 = p2
  Item = {s}
  Short = {s}
  Code = {}
  Worth = 1
  Type = "EXAM"
  Pretest = TRUE
  Booked = TRUE
  Threshold = 1
  WarnAt = 2
  CancelAt = 5
  Process = {p1}
  None = None
  MaxSeverity = 0
  MaxAwarded = 5
PROPERTIES ExpiredIsSubmitted
