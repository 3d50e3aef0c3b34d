--------------------------- MODULE BoothKioskProofs ---------------------------
(***************************************************************************)
(* Proofs about BoothKiosk for every set of devices and staff and every    *)
(* bound: its types, the attempt budget of an OTP, and that it implements  *)
(* KioskLock.                                                              *)
(***************************************************************************)
EXTENDS BoothKiosk, FiniteSetTheorems, TLAPS

LEMMA InitTypeOK == Init => TypeOK
  BY DEF Init, TypeOK, BoothStatus, KioskRequest, StaffRequest, IdleKiosk, IdleStaff

\* Every step of Next keeps the types.
LEMMA NextTypeOK == TypeOK /\ [Next]_vars => TypeOK'
<1> SUFFICES ASSUME TypeOK, [Next]_vars
             PROVE  TypeOK'
  OBVIOUS
<1> USE DEF TypeOK, BoothStatus, KioskRequest, StaffRequest, Session, IdleKiosk, IdleStaff
<1>1. ASSUME NEW k \in Kiosk, ActivateRead(k) PROVE TypeOK'
  BY <1>1 DEF ActivateRead
<1>2. ASSUME NEW k \in Kiosk, ActivateCharge(k) PROVE TypeOK'
  BY <1>2 DEF ActivateCharge
<1>3. ASSUME NEW k \in Kiosk, ActivateClaim(k) PROVE TypeOK'
  BY <1>3 DEF ActivateClaim
<1>4. ASSUME NEW k \in Kiosk, ActivateConflict(k) PROVE TypeOK'
  BY <1>4 DEF ActivateConflict
<1>5. ASSUME NEW k \in Kiosk, LogoutRead(k) PROVE TypeOK'
  BY <1>5 DEF LogoutRead
<1>6. ASSUME NEW k \in Kiosk, LogoutWrite(k) PROVE TypeOK'
  BY <1>6 DEF LogoutWrite
<1>7. ASSUME NEW s \in Staff, OtpRead(s) PROVE TypeOK'
  BY <1>7 DEF OtpRead
<1>8. ASSUME NEW s \in Staff, OtpWrite(s) PROVE TypeOK'
  BY <1>8 DEF OtpWrite
<1>9. ASSUME NEW s \in Staff, ForceRead(s) PROVE TypeOK'
  BY <1>9 DEF ForceRead
<1>10. ASSUME NEW s \in Staff, ForceWrite(s) PROVE TypeOK'
  BY <1>10 DEF ForceWrite
<1>11. ASSUME NEW s \in Staff, UpdateRead(s) PROVE TypeOK'
  BY <1>11 DEF UpdateRead
<1>12. ASSUME NEW s \in Staff, UpdateWrite(s) PROVE TypeOK'
  BY <1>12 DEF UpdateWrite
<1>13. CASE OtpExpires
  BY <1>13 DEF OtpExpires
<1>14. CASE Incident
  BY <1>14 DEF Incident
<1>15. CASE Restart
  BY <1>15 DEF Restart
<1>16. CASE UNCHANGED vars
  BY <1>16 DEF vars
<1> QED
  BY <1>1, <1>2, <1>3, <1>4, <1>5, <1>6, <1>7, <1>8, <1>9, <1>10, <1>11,
     <1>12, <1>13, <1>14, <1>15, <1>16 DEF Next, KioskStep, StaffStep

(***************************************************************************)
(* The columns and the requests in flight keep their types in every        *)
(* behaviour of the kiosk handlers.                                        *)
(***************************************************************************)
THEOREM KioskTypes == Spec => []TypeOK
  BY InitTypeOK, NextTypeOK, PTL DEF Spec

-----------------------------------------------------------------------------
(* The attempt budget *)

\* A step of the requests in KS changes which of them will charge an attempt.
LEMMA ChargingFinite == /\ IsFiniteSet(Charging)
                        /\ Cardinality(Charging) \in Nat
                        /\ Cardinality(Charging) <= Cardinality(Kiosk)
<1>1. Charging \subseteq Kiosk
  BY DEF Charging
<1> QED
  BY <1>1, KioskAssumption, FS_Subset, FS_CardinalityType

LEMMA InitBudget == Init => AttemptBudget
<1> SUFFICES ASSUME Init PROVE AttemptBudget
  OBVIOUS
<1>1. Charging = {} /\ otp.attempts = 0
  BY DEF Init, Charging, IdleKiosk
<1>2. Cardinality(Kiosk) \in Nat
  BY KioskAssumption, FS_CardinalityType
<1> QED
  BY <1>1, <1>2, FS_EmptySet, BoundAssumption DEF AttemptBudget

(***************************************************************************)
(* A request that starts a wrong attempt saw fewer than MaxAttempts and is *)
(* one of |Kiosk| in flight; one that ends moves its unit from Charging to *)
(* the column; every other step lowers one of the two or neither.          *)
(***************************************************************************)
LEMMA NextBudget == TypeOK /\ AttemptBudget /\ [Next]_vars => AttemptBudget'
<1> SUFFICES ASSUME TypeOK, AttemptBudget, [Next]_vars
             PROVE  AttemptBudget'
  OBVIOUS
<1> DEFINE C == Cardinality(Charging)
           N == Cardinality(Kiosk)
<1>n. N \in Nat
  BY KioskAssumption, FS_CardinalityType
<1>c. IsFiniteSet(Charging) /\ C \in Nat /\ C <= N
  BY ChargingFinite
<1>a. otp.attempts \in Nat /\ MaxAttempts \in Nat \ {0}
  BY BoundAssumption DEF TypeOK
<1>s. ASSUME Charging' \subseteq Charging, otp'.attempts \in Nat, otp'.attempts <= otp.attempts
      PROVE  AttemptBudget'
  <2>1. Cardinality(Charging') \in Nat /\ Cardinality(Charging') <= C
    BY <1>s, <1>c, FS_Subset, FS_CardinalityType
  <2> QED
    BY <2>1, <1>s, <1>a, <1>c, <1>n DEF AttemptBudget
<1>1. ASSUME NEW k \in Kiosk, ActivateRead(k) PROVE AttemptBudget'
  <2>1. otp.attempts < MaxAttempts /\ otp' = otp
    BY <1>1 DEF ActivateRead, MayTry
  <2>2. Charging' \subseteq Kiosk
    BY DEF Charging
  <2>3. Cardinality(Charging') \in Nat /\ Cardinality(Charging') <= N
    BY <2>2, KioskAssumption, FS_Subset, FS_CardinalityType
  <2> QED
    BY <2>1, <2>3, <1>a, <1>n DEF AttemptBudget
<1>2. ASSUME NEW k \in Kiosk, ActivateCharge(k) PROVE AttemptBudget'
  <2>1. k \in Charging /\ Charging' = Charging \ {k}
    BY <1>2 DEF ActivateCharge, Charging, IdleKiosk, TypeOK, KioskRequest
  <2>2. otp'.attempts = otp.attempts + 1
    BY <1>2 DEF ActivateCharge, TypeOK
  <2>3. Cardinality(Charging') = C - 1
    BY <2>1, <1>c, FS_RemoveElement
  <2> QED
    BY <2>2, <2>3, <1>a, <1>c, <1>n DEF AttemptBudget
<1>3. ASSUME NEW k \in Kiosk,
             ActivateClaim(k) \/ ActivateConflict(k) \/ LogoutRead(k) \/ LogoutWrite(k)
      PROVE  AttemptBudget'
  <2>1. /\ kiosk' = [kiosk EXCEPT ![k] = IdleKiosk] \/ kiosk' = [kiosk EXCEPT ![k].pc = "logout"]
        /\ otp' = otp \/ otp' = [otp EXCEPT !.used = TRUE, !.attempts = 0]
    BY <1>3 DEF ActivateClaim, ActivateConflict, LogoutRead, LogoutWrite
  <2>2. Charging' \subseteq Charging
    <3>1. CASE kiosk' = [kiosk EXCEPT ![k] = IdleKiosk]
      BY <3>1 DEF Charging, IdleKiosk, TypeOK, KioskRequest
    <3>2. CASE kiosk' = [kiosk EXCEPT ![k].pc = "logout"]
      BY <3>2 DEF Charging, TypeOK, KioskRequest
    <3> QED
      BY <2>1, <3>1, <3>2
  <2>3. otp'.attempts \in Nat /\ otp'.attempts <= otp.attempts
    <3>1. CASE otp' = otp
      BY <3>1, <1>a
    <3>2. CASE otp' = [otp EXCEPT !.used = TRUE, !.attempts = 0]
      <4>1. otp'.attempts = 0
        BY <3>2 DEF TypeOK
      <4> QED
        BY <4>1, <1>a
    <3> QED
      BY <2>1, <3>1, <3>2
  <2> QED
    BY <2>2, <2>3, <1>s
<1>4. ASSUME NEW s \in Staff, StaffStep(s) PROVE AttemptBudget'
  <2>1. Charging' = Charging
    BY <1>4 DEF StaffStep, OtpRead, OtpWrite, ForceRead, ForceWrite, UpdateRead,
                UpdateWrite, Charging
  <2>2. otp'.attempts \in Nat /\ otp'.attempts <= otp.attempts
    BY <1>4, <1>a DEF StaffStep, OtpRead, OtpWrite, ForceRead, ForceWrite,
                      UpdateRead, UpdateWrite, TypeOK
  <2> QED
    BY <2>1, <2>2, <1>s
<1>5. CASE OtpExpires \/ Incident \/ Restart \/ UNCHANGED vars
  <2>1. Charging' \subseteq Charging
    BY <1>5 DEF OtpExpires, Incident, Restart, vars, Charging, IdleKiosk
  <2>2. otp'.attempts \in Nat /\ otp'.attempts <= otp.attempts
    BY <1>5, <1>a DEF OtpExpires, Incident, Restart, vars, TypeOK
  <2> QED
    BY <2>1, <2>2, <1>s
<1> QED
  BY <1>1, <1>2, <1>3, <1>4, <1>5 DEF Next, KioskStep

(***************************************************************************)
(* However many devices try OTPs at once, the failed attempts charged to   *)
(* one OTP stay within MaxAttempts - 1 plus the requests in flight.        *)
(***************************************************************************)
THEOREM OtpAttemptBudget == Spec => []AttemptBudget
<1>1. TypeOK /\ AttemptBudget /\ [Next]_vars => TypeOK' /\ AttemptBudget'
  BY NextTypeOK, NextBudget
<1> QED
  BY InitTypeOK, InitBudget, <1>1, PTL DEF Spec

-----------------------------------------------------------------------------
(* BoothKiosk implements KioskLock *)

LEMMA InitSpentInv == Init => SpentInv
  BY DEF Init, SpentInv, IdleKiosk

\* Only OtpWrite and ActivateClaim touch the OTP's number, its use or spent.
LEMMA NextSpentInv == TypeOK /\ SpentInv /\ [Next]_vars => SpentInv'
<1> SUFFICES ASSUME TypeOK, SpentInv, [Next]_vars
             PROVE  SpentInv'
  OBVIOUS
<1> USE DEF SpentInv, TypeOK, KioskRequest, IdleKiosk
<1>1. ASSUME NEW k \in Kiosk, ActivateRead(k) PROVE SpentInv'
  BY <1>1 DEF ActivateRead, MayTry
<1>2. ASSUME NEW k \in Kiosk, ActivateClaim(k) PROVE SpentInv'
  BY <1>2 DEF ActivateClaim, Claimable
<1>3. ASSUME NEW k \in Kiosk,
             ActivateCharge(k) \/ ActivateConflict(k) \/ LogoutRead(k) \/ LogoutWrite(k)
      PROVE  SpentInv'
  BY <1>3 DEF ActivateCharge, ActivateConflict, LogoutRead, LogoutWrite
<1>4. ASSUME NEW s \in Staff, OtpWrite(s) PROVE SpentInv'
  BY <1>4 DEF OtpWrite
<1>5. ASSUME NEW s \in Staff,
             OtpRead(s) \/ ForceRead(s) \/ ForceWrite(s) \/ UpdateRead(s) \/ UpdateWrite(s)
      PROVE  SpentInv'
  BY <1>5 DEF OtpRead, ForceRead, ForceWrite, UpdateRead, UpdateWrite
<1>6. CASE OtpExpires \/ Incident \/ Restart \/ UNCHANGED vars
  BY <1>6 DEF OtpExpires, Incident, Restart, vars
<1> QED
  BY <1>1, <1>2, <1>3, <1>4, <1>5, <1>6 DEF Next, KioskStep, StaffStep

(***************************************************************************)
(* An OTP is marked used exactly when it has opened a session, in every    *)
(* behaviour of the kiosk handlers.                                        *)
(***************************************************************************)
THEOREM UsedOtpsAreSpent == Spec => []SpentInv
<1>1. TypeOK /\ SpentInv /\ [Next]_vars => TypeOK' /\ SpentInv'
  BY NextTypeOK, NextSpentInv
<1> QED
  BY InitTypeOK, InitSpentInv, <1>1, PTL DEF Spec

\* Every step of the handlers is a step of the lock or leaves it alone.
LEMMA StepImplementsLock ==
  TypeOK /\ SpentInv /\ [Next]_vars => [Lock!Next]_Lock!vars
<1> SUFFICES ASSUME TypeOK, SpentInv, [Next]_vars
             PROVE  [Lock!Next]_Lock!vars
  OBVIOUS
<1> USE DEF InService, Lock!vars
<1>1. ASSUME NEW k \in Kiosk, ActivateClaim(k) PROVE Lock!Next
  <2>1. Lock!Take(k)
    BY <1>1 DEF ActivateClaim, Claimable, SpentInv, TypeOK, Lock!Take
  <2> QED
    BY <2>1 DEF Lock!Next
<1>2. ASSUME NEW s \in Staff, OtpWrite(s) PROVE Lock!Next
  <2>1. Lock!Issue
    BY <1>2 DEF OtpWrite, TypeOK, Lock!Issue
  <2> QED
    BY <2>1 DEF Lock!Next
<1>3. ASSUME live' = Free, UNCHANGED <<otp, spent>> PROVE Lock!Next
  <2>1. Lock!Release
    BY <1>3 DEF Lock!Release
  <2> QED
    BY <2>1 DEF Lock!Next
<1>4. ASSUME UNCHANGED <<live, otp, spent>> PROVE [Lock!Next]_Lock!vars
  <2>1. InService' # InService => Lock!Switch
    BY <1>4 DEF Lock!Switch
  <2> QED
    BY <2>1, <1>4 DEF Lock!Next
<1>5. CASE OtpExpires
  BY <1>5 DEF OtpExpires, TypeOK
<1>6. ASSUME NEW s \in Staff, UpdateWrite(s) PROVE [Lock!Next]_Lock!vars
  BY <1>6, <1>3, <1>4 DEF UpdateWrite
<1>7. CASE Incident
  BY <1>7, <1>3, <1>4 DEF Incident
<1>8. ASSUME NEW k \in Kiosk, ActivateCharge(k) PROVE [Lock!Next]_Lock!vars
  BY <1>8 DEF ActivateCharge, TypeOK
<1>9. ASSUME NEW k \in Kiosk,
             ActivateRead(k) \/ ActivateConflict(k) \/ LogoutRead(k) \/ LogoutWrite(k)
      PROVE  [Lock!Next]_Lock!vars
  BY <1>9, <1>3, <1>4 DEF ActivateRead, ActivateConflict, LogoutRead, LogoutWrite
<1>10. ASSUME NEW s \in Staff,
              OtpRead(s) \/ ForceRead(s) \/ ForceWrite(s) \/ UpdateRead(s)
       PROVE  [Lock!Next]_Lock!vars
  BY <1>10, <1>3, <1>4 DEF OtpRead, ForceRead, ForceWrite, UpdateRead
<1>11. CASE Restart \/ UNCHANGED vars
  BY <1>11, <1>4 DEF Restart, vars
<1> QED
  BY <1>1, <1>2, <1>5, <1>6, <1>7, <1>8, <1>9, <1>10, <1>11
     DEF Next, KioskStep, StaffStep

(***************************************************************************)
(* The handlers implement the kiosk lock: whatever the interleaving, a     *)
(* session starts only on a booth in service without one, with the OTP     *)
(* issued last, which has opened no session before.                        *)
(***************************************************************************)
THEOREM KioskIsALock == Spec => IsALock
<1>1. Init => Lock!Init
  BY DEF Init, Lock!Init, InService
<1>2. Spec => []TypeOK /\ []SpentInv
  BY KioskTypes, UsedOtpsAreSpent, PTL
<1> QED
  BY <1>1, <1>2, StepImplementsLock, PTL DEF Spec, IsALock, Lock!Spec
=============================================================================
