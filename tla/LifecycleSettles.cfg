SPECIFICATION FairSpec
CONSTANTS
  an = an
  k1 = k1
  b1 = b1
  b2 = b2
  r1 = r1
  r2 = r2
  j1 = j1
  Student = {an}
  Booth = {k1}
  Early = 1
  Grace = 1
  Cutoff = 0
  MaxFailed = 1
  Booking = {b1, b2}
  Reserves <- TwoInARow
  Request = {r1}
  Job = {j1}
  None = None
  Horizon = 5
  MaxMarks = 1
  MaxFailures = 1
INVARIANTS EntryWasGranted
PROPERTIES EveryBookingSettles
