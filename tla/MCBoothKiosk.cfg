SPECIFICATION Spec
CONSTANTS
  k1 = k1
  k2 = k2
  s1 = s1
  s2 = s2
  Free = Free
  Kiosk <- MCKiosk
  Staff <- MCStaff
  MaxAttempts = 2
  MaxOtps = 2
INVARIANTS TypeOK AttemptBudget SpentInv
PROPERTIES IsALock
