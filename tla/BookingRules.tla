----------------------------- MODULE BookingRules -----------------------------
(***************************************************************************)
(* The time rules every booking handler applies: check-in window, no-show  *)
(* deadline, overlap, gap between a student's sessions, cancellation       *)
(* deadline.  Instants and lengths are in the same unit, say a quarter of  *)
(* an hour.                                                                *)
(***************************************************************************)
EXTENDS Integers

CONSTANTS
  Student, Booth,
  Early,      \* check-in opens this long before the start (CHECKIN_EARLY_MINUTES)
  Grace,      \* an EXAM not checked in by then is missed (noShowGraceMinutes)
  Cutoff,     \* students cancel no later than this before the start
  MaxFailed   \* EXAM_FALLBACK_MAX_FAILED_ATTEMPTS

ASSUME LengthsAssumption ==
  Early \in Nat /\ Grace \in Nat /\ Cutoff \in Nat /\ MaxFailed \in Nat

Kind == {"EXAM", "PRACTICE"}

\* What a booking reserves.
Slot == [who : Student, booth : Booth, kind : Kind, start : Nat, end : Nat]

BookingStatus == {"CONFIRM", "CHECKED_IN", "COMPLETED", "CANCEL", "ABSENT"}

\* The statuses in which a booking occupies its slot.
Live == {"CONFIRM", "CHECKED_IN"}

\* isWithinCheckInWindow / isWithinAutoCheckInWindow, CHECKIN_LATE_MINUTES = 0.
InCheckInWindow(s, t) == s.start - Early <= t /\ t <= s.end

\* Distance in time from the start of s, by which a login picks its booking.
Distance(s, t) == IF t < s.start THEN s.start - t ELSE t - s.start

Expired(s, t) == s.end < t

\* Mutant of NoShowDue: only an EXAM is ever missed.
NoShowOfExam(s, t) == s.kind = "EXAM" /\ s.start + Grace <= t

\* A booking nobody checked in to is missed at its end, an EXAM after Grace.
NoShowDue(s, t) == Expired(s, t) \/ (s.kind = "EXAM" /\ s.start + Grace <= t)

\* The deadline for a cancellation by the student.
MayStudentCancel(s, t) == t <= s.start - Cutoff
=============================================================================
