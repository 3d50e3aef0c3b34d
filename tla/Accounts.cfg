SPECIFICATION Spec
CONSTANTS
  Process = {p1, p2}
  None = None
  Code = {c1, c2, c3}
  MaxIds = 2
  Lecturer = {dean, tutor, fellow}
  Chief = dean
  Own = {tutor}
  Role = {top, low}
  Top = top
  Admin = Admin
  Request = {p3}
  MaxPriority = 2
  Score = {1, 2}
  EnvThreshold = None
  Default = 2
  MaxAttempts = 2
INVARIANTS TypeOK BarredMeansOut CodeIsSpent  FaceIsVouchedFor RepairedWhenAlone
SYMMETRY Symmetry
