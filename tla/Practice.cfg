SPECIFICATION Spec
CONSTANTS
  Request = {p1, p2}
  None = None
  Cron = cron
  Question = {q0}
  Problem = {c}
  Booking = {b}
  MaxSessions = 2
  MaxItems = 2
  Longest = 2
  Grace = 1
  MaxFailures = 1
  Student = {s}
  MaxSubmissions = 2
  MaxTests = 2
  MaxRetries = 2
  Lone = p1
INVARIANTS TypeOK AttendancePaysOnce ScoreIsSum SolvedCountsOnce
PROPERTIES SessionsEnd RequestsEnd
CHECK_DEADLOCK FALSE
