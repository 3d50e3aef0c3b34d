SPECIFICATION Spec
CONSTANTS
  an = an
  k1 = k1
  b1 = b1
  b2 = b2
  r1 = r1
  r2 = r2
  j1 = j1
  Student = {an}
  Booth = {k1}
  Early = 1
  Grace = 1
  Cutoff = 0
  MaxFailed = 1
  Booking = {b1}
  Reserves <- OneExam
  Request <- TwoRequests
  Job = {j1}
  None = None
  Horizon = 3
  MaxMarks = 1
  MaxFailures = 2
INVARIANTS TypeOK PenaltyPaidFor FallbackEarned
PROPERTIES OnlyMissedBecomeAbsent
SYMMETRY Requests
