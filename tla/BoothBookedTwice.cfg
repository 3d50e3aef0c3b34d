SPECIFICATION Spec
CONSTANTS
  an = an
  bo = bo
  k1 = k1
  k2 = k2
  p1 = p1
  p2 = p2
  Student = {an, bo}
  Booth = {k1, k2}
  Early = 1
  Grace = 1
  Cutoff = 0
  MaxFailed = 0
  Process = {p1, p2}
  Requested <- Contended
  WalkIns = {}
  Failing = {}
  Gap = 1
  ForceBefore = 1
  WalkInLength = 2
  Day = 10
  MinDays = 0
  MaxDays = 1
  Horizon = 0
  MaxRows = 2
INVARIANTS BoothsAtMostOnce
SYMMETRY Processes
