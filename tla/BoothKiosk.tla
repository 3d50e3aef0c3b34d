------------------------------ MODULE BoothKiosk ------------------------------
(***************************************************************************)
(* The kiosk session of one booth: the one-time password (OTP) staff       *)
(* generate, the device that activates the booth with it, logout, forced   *)
(* logout and the changes of booth status that end the session             *)
(* (src/booths/booths.service.ts).                                         *)
(*                                                                         *)
(* Every request handler awaits the database, so it is modelled by a step  *)
(* that reads the booth row and a later step that writes it; any number of *)
(* other handlers may run in between.  Rows of different booths never      *)
(* meet, so one row is modelled.                                           *)
(*                                                                         *)
(* Abstractions.  A generated OTP is its serial number: bcrypt salts every *)
(* hash, so equal activationOtpHash columns mean the same generation, and  *)
(* a typed OTP is right (it is the one read) or wrong.  A session is the   *)
(* device and the OTP that opened it.  sessionTokenHash is a bcrypt hash   *)
(* of a JWT, of which bcrypt reads the first 72 bytes: header and the      *)
(* start of boothId.  A device's old token of this booth therefore passes  *)
(* the comparison with a newer session's hash, and the model lets it.      *)
(***************************************************************************)
EXTENDS Integers, FiniteSets

CONSTANTS Kiosk,       \* devices that activate the booth
          Staff,       \* administrators and lecturers, one request each
          MaxAttempts, \* getOtpMaxAttempts(): wrong tries before refusal
          MaxOtps,     \* bound: OTPs generated in a behaviour
          Free         \* no session (sessionTokenHash is null)

ASSUME KioskAssumption == IsFiniteSet(Kiosk)
ASSUME FreeAssumption == Free \notin [kiosk : Kiosk, otp : Nat]
ASSUME BoundAssumption == MaxAttempts \in Nat \ {0} /\ MaxOtps \in Nat

VARIABLES
  status,  \* Booth.status
  otp,     \* activationOtp*: serial number, used, expired, failed attempts
  live,    \* the session in sessionTokenHash, or Free
  token,   \* token[k]: device k was given a session token at some time
  kiosk,   \* the request of each device: where it is and the OTP it read
  staff,   \* the request of each member of staff and what it read
  spent    \* history: serial numbers that have opened a session

vars == <<status, otp, live, token, kiosk, staff, spent>>

BoothStatus == {"ACTIVE", "MAINTENANCE_PENDING", "MAINTENANCE", "INACTIVE"}

\* Statuses in which mapBoothForResponse and the JWT strategy honour a session.
Serving == {"ACTIVE", "MAINTENANCE_PENDING"}

Session == [kiosk : Kiosk, otp : Nat]
KioskRequest == [pc : {"idle", "claim", "charge", "logout"}, seen : Nat]
StaffRequest == [pc : {"idle", "issue", "force", "update"},
                 seen : BoothStatus, to : BoothStatus]

TypeOK ==
  /\ status \in BoothStatus
  /\ otp \in [n : Nat, used : BOOLEAN, expired : BOOLEAN, attempts : Nat]
  /\ live \in Session \cup {Free}
  /\ token \in [Kiosk -> BOOLEAN]
  /\ kiosk \in [Kiosk -> KioskRequest]
  /\ staff \in [Staff -> StaffRequest]
  /\ spent \subseteq Nat

IdleKiosk == [pc |-> "idle", seen |-> 0]
IdleStaff == [pc |-> "idle", seen |-> "ACTIVE", to |-> "ACTIVE"]

Init ==
  /\ status = "ACTIVE"
  /\ otp = [n |-> 0, used |-> FALSE, expired |-> FALSE, attempts |-> 0]
  /\ live = Free
  /\ token = [k \in Kiosk |-> FALSE]
  /\ kiosk = [k \in Kiosk |-> IdleKiosk]
  /\ staff = [s \in Staff |-> IdleStaff]
  /\ spent = {}

-----------------------------------------------------------------------------
(* generateActivationOtp *)

\* The booth must be in service and without a session when the row is read.
OtpRead(s) ==
  /\ staff[s].pc = "idle"
  /\ status = "ACTIVE"
  /\ live = Free
  /\ staff' = [staff EXCEPT ![s].pc = "issue"]
  /\ UNCHANGED <<status, otp, live, token, kiosk, spent>>

\* Mutant of OtpWrite: activationOtpUsedAt is not reset.
OtpKeepsUse(s) ==
  /\ staff[s].pc = "issue"
  /\ otp.n < MaxOtps
  /\ otp' = [otp EXCEPT !.n = @ + 1, !.expired = FALSE, !.attempts = 0]
  /\ staff' = [staff EXCEPT ![s] = IdleStaff]
  /\ UNCHANGED <<status, live, token, kiosk, spent>>

\* The new OTP replaces whatever the row holds by then.
OtpWrite(s) ==
  /\ staff[s].pc = "issue"
  /\ otp.n < MaxOtps
  /\ otp' = [n |-> otp.n + 1, used |-> FALSE, expired |-> FALSE, attempts |-> 0]
  /\ staff' = [staff EXCEPT ![s] = IdleStaff]
  /\ UNCHANGED <<status, live, token, kiosk, spent>>

\* getOtpTtlMinutes() pass.
OtpExpires ==
  /\ otp.n # 0
  /\ ~otp.expired
  /\ otp' = [otp EXCEPT !.expired = TRUE]
  /\ UNCHANGED <<status, live, token, kiosk, staff, spent>>

-----------------------------------------------------------------------------
(* activateBoothSession *)

\* Mutant of MayTry: the limit on attempts is forgotten.
MayTryForever ==
  /\ status = "ACTIVE"
  /\ live = Free
  /\ otp.n # 0 /\ ~otp.used /\ ~otp.expired

\* What the handler requires of the row it reads before it compares the OTP.
MayTry ==
  /\ status = "ACTIVE"
  /\ live = Free
  /\ otp.n # 0
  /\ ~otp.used
  /\ ~otp.expired
  /\ otp.attempts < MaxAttempts

\* Device k sends a right or a wrong OTP and the handler reads the row.
ActivateRead(k) ==
  /\ kiosk[k].pc = "idle"
  /\ MayTry
  /\ \E next \in {"claim", "charge"} :
       kiosk' = [kiosk EXCEPT ![k] = [pc |-> next, seen |-> otp.n]]
  /\ UNCHANGED <<status, otp, live, token, staff, spent>>

\* Mutant of ActivateCharge: the attempts left are counted down.
ActivateDebit(k) ==
  /\ kiosk[k].pc = "charge"
  /\ otp' = [otp EXCEPT !.attempts = @ - 1]
  /\ kiosk' = [kiosk EXCEPT ![k] = IdleKiosk]
  /\ UNCHANGED <<status, live, token, staff, spent>>

\* A wrong OTP is charged to the row as it is now.
ActivateCharge(k) ==
  /\ kiosk[k].pc = "charge"
  /\ otp' = [otp EXCEPT !.attempts = @ + 1]
  /\ kiosk' = [kiosk EXCEPT ![k] = IdleKiosk]
  /\ UNCHANGED <<status, live, token, staff, spent>>

\* Mutant of Claimable: the WHERE clause without activationOtpUsedAt.
ClaimableTwice(seen) ==
  /\ status = "ACTIVE"
  /\ live = Free
  /\ otp.n = seen

\* The WHERE clause of the claiming updateMany.  Its condition on
\* activationOtpExpiresAt compares with the time of the read, when this same
\* OTP had not expired, and so adds nothing to the equality of the hashes.
Claimable(seen) ==
  /\ status = "ACTIVE"
  /\ live = Free
  /\ ~otp.used
  /\ otp.n = seen

ActivateClaim(k) ==
  /\ kiosk[k].pc = "claim"
  /\ Claimable(kiosk[k].seen)
  /\ otp' = [otp EXCEPT !.used = TRUE, !.attempts = 0]
  /\ live' = [kiosk |-> k, otp |-> kiosk[k].seen]
  /\ token' = [token EXCEPT ![k] = TRUE]
  /\ spent' = spent \cup {kiosk[k].seen}
  /\ kiosk' = [kiosk EXCEPT ![k] = IdleKiosk]
  /\ UNCHANGED <<status, staff>>

\* claimed.count is 0: the handler throws Conflict and the row is untouched.
ActivateConflict(k) ==
  /\ kiosk[k].pc = "claim"
  /\ ~Claimable(kiosk[k].seen)
  /\ kiosk' = [kiosk EXCEPT ![k] = IdleKiosk]
  /\ UNCHANGED <<status, otp, live, token, staff, spent>>

-----------------------------------------------------------------------------
(* deactivateBoothSession: validateBoothSessionToken, then the write *)

LogoutRead(k) ==
  /\ kiosk[k].pc = "idle"
  /\ token[k]
  /\ status = "ACTIVE"
  /\ live # Free
  /\ kiosk' = [kiosk EXCEPT ![k].pc = "logout"]
  /\ UNCHANGED <<status, otp, live, token, staff, spent>>

\* Whatever session the row holds by now is cleared.
LogoutWrite(k) ==
  /\ kiosk[k].pc = "logout"
  /\ live' = Free
  /\ kiosk' = [kiosk EXCEPT ![k] = IdleKiosk]
  /\ UNCHANGED <<status, otp, token, staff, spent>>

-----------------------------------------------------------------------------
(* forceDeactivateBoothSessionByBoothId; the booking it closes is in        *)
(* BookingLifecycle.                                                        *)

ForceRead(s) ==
  /\ staff[s].pc = "idle"
  /\ live # Free
  /\ staff' = [staff EXCEPT ![s].pc = "force"]
  /\ UNCHANGED <<status, otp, live, token, kiosk, spent>>

ForceWrite(s) ==
  /\ staff[s].pc = "force"
  /\ live' = Free
  /\ staff' = [staff EXCEPT ![s] = IdleStaff]
  /\ UNCHANGED <<status, otp, token, kiosk, spent>>

-----------------------------------------------------------------------------
(* update, and the change of status that ends an incident transfer *)

UpdateRead(s) ==
  /\ staff[s].pc = "idle"
  /\ \E to \in BoothStatus :
       staff' = [staff EXCEPT ![s] = [pc |-> "update", seen |-> status, to |-> to]]
  /\ UNCHANGED <<status, otp, live, token, kiosk, spent>>

\* isStatusChanged and shouldInvalidateSession use the status that was read.
UpdateWrite(s) ==
  LET req == staff[s] IN
  /\ req.pc = "update"
  /\ status' = req.to
  /\ live' = IF req.to # req.seen /\ req.to \notin Serving THEN Free ELSE live
  /\ staff' = [staff EXCEPT ![s] = IdleStaff]
  /\ UNCHANGED <<otp, token, kiosk, spent>>

\* transferBookingsFromIncidentBooth ends, in its transaction, by putting the
\* source booth out of service: at once if no booking remains there.
Incident ==
  /\ \/ /\ status' = "MAINTENANCE_PENDING"
        /\ UNCHANGED live
     \/ /\ status' = "MAINTENANCE"
        /\ live' = Free
  /\ UNCHANGED <<otp, token, kiosk, staff, spent>>

-----------------------------------------------------------------------------

\* The server restarts: every request in flight is lost, the row stays.
Restart ==
  /\ kiosk' = [k \in Kiosk |-> IdleKiosk]
  /\ staff' = [s \in Staff |-> IdleStaff]
  /\ UNCHANGED <<status, otp, live, token, spent>>

KioskStep(k) ==
  \/ ActivateRead(k) \/ ActivateCharge(k) \/ ActivateClaim(k) \/ ActivateConflict(k)
  \/ LogoutRead(k) \/ LogoutWrite(k)

StaffStep(s) ==
  \/ OtpRead(s) \/ OtpWrite(s) \/ ForceRead(s) \/ ForceWrite(s)
  \/ UpdateRead(s) \/ UpdateWrite(s)

Next ==
  \/ \E k \in Kiosk : KioskStep(k)
  \/ \E s \in Staff : StaffStep(s)
  \/ OtpExpires \/ Incident \/ Restart

Spec == Init /\ [][Next]_vars

-----------------------------------------------------------------------------
(* Properties *)

\* The requests that will still charge a wrong attempt to the row.
Charging == {k \in Kiosk : kiosk[k].pc = "charge"}

(***************************************************************************)
(* activationOtpAttempts is checked on the row a request read and          *)
(* incremented later, so requests in flight overrun MaxAttempts.  They     *)
(* overrun it by no more than the devices that can be in flight at once:   *)
(* an OTP is never tried more than MaxAttempts - 1 + |Kiosk| times.        *)
(***************************************************************************)
AttemptBudget ==
  otp.attempts + Cardinality(Charging) <= MaxAttempts - 1 + Cardinality(Kiosk)

(***************************************************************************)
(* Why the lock works: the row's OTP is marked used exactly when it has    *)
(* opened a session, later OTPs have opened none, and a request that will  *)
(* claim has read an OTP that exists.                                      *)
(***************************************************************************)
SpentInv ==
  /\ otp.used <=> otp.n \in spent
  /\ spent \subseteq 1..otp.n
  /\ \A k \in Kiosk : kiosk[k].pc = "claim" => kiosk[k].seen # 0

InService == status = "ACTIVE"

Lock == INSTANCE KioskLock WITH holder <- live, current <- otp.n, open <- InService

(***************************************************************************)
(* Under every interleaving of the read and write steps, activation with   *)
(* its conditional updateMany is a lock: a session starts only on a booth  *)
(* in service that has none, with the OTP generated last, and an OTP opens *)
(* at most one session.                                                    *)
(***************************************************************************)
IsALock == Lock!Spec
=============================================================================
