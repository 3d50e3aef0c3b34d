SPECIFICATION Spec
CONSTANTS
  None = None
  AsIs = AsIs
  Request = {p1, p2}
  Subject = {s1, s2}
  Topic = {t}
  Question = {q0}
  MaxRows = 1
  Paper = {quiz}
  Drawable = {q1, q2}
  Problem = {b}
  Class = {e1, e2}
  Rule <- TwoRules
  MaxDraw = 1
  MaxTime = 1
  Threshold = {1, 2}
  Setting <- AnySetting
  Official = {quiz}
  Practice = {drill}
  Configuration <- OnePretest
  MaxSessions = 3
  MaxDay = 1
INVARIANTS TypeOK   ThresholdIsWithin FlagIsTrue 
  
SYMMETRY Symmetry
CHECK_DEADLOCK FALSE
