------------------------------ MODULE MCAccounts ------------------------------
(***************************************************************************)
(* The modules about people together: an account, the roles of lecturers,  *)
(* and how a student is verified.  They share no state, so a behaviour for *)
(* TLC is one of one of them ("part"), with the others at rest.            *)
(***************************************************************************)
EXTENDS Integers, FiniteSets, TLC

CONSTANTS
  Process, None,
  Code, MaxIds,                                           \* of Accounts
  Lecturer, Chief, Own, Role, Top, Admin, Request, MaxPriority,  \* of LecturerRoles
  Score, EnvThreshold, Default, MaxAttempts               \* of Kyc

VARIABLES
  part,
  id, ids, auth, known, verified, session, link, reset, locked, overdue,
  inbox, expired, proc, used, entered,
  listed, priority, active, admins, role, lockedLecturers, roleProc, byAdmin,
  attempts, threshold, status, review, face, card, cardVerified, embedding,
  kycProc, matched, requested, alone, whole

A == INSTANCE Accounts
L == INSTANCE LecturerRoles WITH Process <- Request, locked <- lockedLecturers, proc <- roleProc
K == INSTANCE Kyc WITH proc <- kycProc

ASSUME AccountsAssumption == A!ConstantsAssumption
ASSUME RolesAssumption == L!ConstantsAssumption
ASSUME KycAssumption == K!ConstantsAssumption

account == <<id, ids, auth, known, verified, session, link, reset, locked, overdue,
             inbox, expired, proc, used, entered>>
roles == <<listed, priority, active, admins, role, lockedLecturers, roleProc, byAdmin>>
kyc == <<attempts, threshold, status, review, face, card, cardVerified, embedding,
         kycProc, matched, requested, alone, whole>>
vars == <<part, account, roles, kyc>>

Init ==
  /\ part \in {"account", "roles", "kyc"}
  /\ A!Init /\ L!Init /\ K!Init

Next ==
  \/ part = "account" /\ A!Next /\ UNCHANGED <<part, roles, kyc>>
  \/ part = "roles" /\ L!Next /\ UNCHANGED <<part, account, kyc>>
  \/ part = "kyc" /\ K!Next /\ UNCHANGED <<part, account, roles>>

Spec == Init /\ [][Next]_vars

Symmetry == Permutations(Process) \cup Permutations(Code)

-----------------------------------------------------------------------------
(* What each module states, as the invariants of one run. *)

(* The types of the three modules. *)
TypeOK == A!TypeOK /\ L!TypeOK /\ K!TypeOK

(* Accounts: only logins begun before a lock get past it. *)
BarredMeansOut == A!BarredMeansOut

(* Accounts: a reset code sets at most one password per request under way. *)
CodeIsSpent == A!CodeIsSpent

(* LecturerRoles: nobody but ADMIN gives, moves or locks the highest role. *)
TopIsForAdmin == L!TopIsForAdmin

(* Kyc: somebody has vouched for the face the booth compares with. *)
FaceIsVouchedFor == K!FaceIsVouchedFor

(* Kyc: the next undisturbed request makes the three rows agree again. *)
RepairedWhenAlone == K!RepairedWhenAlone
=============================================================================
