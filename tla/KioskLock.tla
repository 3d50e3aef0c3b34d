------------------------------ MODULE KioskLock ------------------------------
(***************************************************************************)
(* What booths.service.ts promises of the kiosk session of one booth: it   *)
(* is a lock.  A device takes the free lock by presenting the one-time     *)
(* password (OTP) issued last, once per password, and only while the booth *)
(* is in service; the lock is released by a logout, by a forced logout or  *)
(* when the booth leaves service.  BoothKiosk implements this module.      *)
(***************************************************************************)
EXTENDS Naturals

CONSTANTS Kiosk,   \* the devices (browsers) that may take the lock
          Free     \* the value of holder when nobody has the lock

VARIABLES holder,  \* Free, or the device and the password it presented
          current, \* number of the password issued last, 0 before the first
          spent,   \* numbers of the passwords that have been used
          open     \* TRUE while the booth is in service

vars == <<holder, current, spent, open>>

Init == /\ holder = Free
        /\ current = 0
        /\ spent = {}
        /\ open = TRUE

\* Staff issue the next password; the one before it stops being honoured.
Issue == /\ current' = current + 1
         /\ UNCHANGED <<holder, spent, open>>

\* Device k takes the free lock with the password issued last.
Take(k) == /\ holder = Free
           /\ open
           /\ current # 0
           /\ current \notin spent
           /\ holder' = [kiosk |-> k, otp |-> current]
           /\ spent' = spent \cup {current}
           /\ UNCHANGED <<current, open>>

\* The lock is released; the booth may leave or enter service at that moment.
Release == /\ holder' = Free
           /\ open' \in BOOLEAN
           /\ UNCHANGED <<current, spent>>

\* The booth enters or leaves service and whoever has the lock keeps it.
Switch == /\ open' = ~open
          /\ UNCHANGED <<holder, current, spent>>

Next == Issue \/ (\E k \in Kiosk : Take(k)) \/ Release \/ Switch

Spec == Init /\ [][Next]_vars
=============================================================================
