--------------------------- MODULE BookingLifecycle ---------------------------
(***************************************************************************)
(* The life of bookings that have been made: login at the kiosk, face      *)
(* check-in, cancellation, checkout by a monitor, and the job that runs    *)
(* every minute to check out expired bookings and charge missed ones       *)
(* (src/bookings, src/checkin, src/auth boothLogin, src/tasks).            *)
(*                                                                         *)
(* A handler is a process of two or more steps: it reads rows, awaits, and *)
(* writes what it decided.  Only one statement (or one $transaction) is    *)
(* atomic, so a step is one read or one write with the conditions of its   *)
(* WHERE clause.  A database or service call may fail at any step, which   *)
(* ends the handler; a restart of the server is every handler failing.     *)
(* Making, moving and walking in to bookings is in BookingSlots; here the  *)
(* slot of a booking does not change.                                      *)
(***************************************************************************)
EXTENDS BookingRules, FiniteSets

CONSTANTS
  Booking,     \* ids of the bookings
  Reserves,    \* Reserves[b]: the slot of booking b
  Request,     \* request handlers running at the same time
  Job,         \* overlapping runs of handleBookingAutoCheckout
  None,        \* not a booking
  Horizon,     \* bound: the last instant
  MaxMarks,    \* bound: no login or verification once b was marked this often
  MaxFailures  \* bound: no verification of b after this many that failed to match

ASSUME ReservesAssumption == Reserves \in [Booking -> Slot]
ASSUME NoneAssumption == None \notin Booking
ASSUME BoundsAssumption == Horizon \in Nat /\ MaxMarks \in Nat /\ MaxFailures \in Nat

Process == Request \cup Job

ASSUME ProcessAssumption == Request \cap Job = {} /\ IsFiniteSet(Process)

VARIABLES
  now,        \* the clock
  active,     \* active[k]: booth k is ACTIVE
  status,     \* Booking.status
  checkin,    \* Booking.checkinStatus
  tries,      \* Booking.checkinAttemptCount
  penalties,  \* NO_SHOW_PENALTY transactions recorded for a booking
  proc,       \* where each process is and what it has read
  marks,      \* history: how often a booking became ABSENT
  failures,   \* history: how many verifications of a booking failed to match
  entered     \* history: the bookings whose student was checked in

vars == <<now, active, status, checkin, tries, penalties, proc, marks, failures, entered>>

CheckinStatus == {"PENDING", "PASSED", "FAILED", "FAILED_BUT_ALLOWED"}

\* idle; a request about to write; a job between its two halves; a process in
\* the no-show loop, looking for an earlier penalty or about to charge one.
Label == {"idle", "login", "verify", "cancel", "checkout",
          "sweep", "swept", "noshow", "find", "charge"}

Local == [pc : Label, b : Booking \cup {None}, seen : BookingStatus,
          seenTries : Nat, todo : SUBSET Booking]

\* A process at label that has read no row but those in todo, and works on b.
Loop(label, b, todo) ==
  [pc |-> label, b |-> b, seen |-> "CONFIRM", seenTries |-> 0, todo |-> todo]

Idle == Loop("idle", None, {})

TypeOK ==
  /\ now \in 0..Horizon
  /\ active \in [Booth -> BOOLEAN]
  /\ status \in [Booking -> BookingStatus]
  /\ checkin \in [Booking -> CheckinStatus]
  /\ tries \in [Booking -> Nat]
  /\ penalties \in [Booking -> Nat]
  /\ proc \in [Process -> Local]
  /\ \A p \in Process :
       proc[p].pc \in {"login", "verify", "cancel", "checkout", "find", "charge"}
         => proc[p].b \in Booking
  /\ marks \in [Booking -> Nat]
  /\ failures \in [Booking -> Nat]
  /\ entered \subseteq Booking

Init ==
  /\ now = 0
  /\ active = [k \in Booth |-> TRUE]
  /\ status = [b \in Booking |-> "CONFIRM"]
  /\ checkin = [b \in Booking |-> "PENDING"]
  /\ tries = [b \in Booking |-> 0]
  /\ penalties = [b \in Booking |-> 0]
  /\ proc = [p \in Process |-> Idle]
  /\ marks = [b \in Booking |-> 0]
  /\ failures = [b \in Booking |-> 0]
  /\ entered = {}

\* The columns and histories a step leaves alone, grouped as steps need them.
row == <<status, checkin, tries>>
history == <<marks, failures, entered>>
world == <<now, active>>

\* Process p moves on to the local state next.
Goto(p, next) == proc' = [proc EXCEPT ![p] = next]
End(p) == Goto(p, Idle)
Await(p, label, b) ==
  Goto(p, [pc |-> label, b |-> b, seen |-> status[b], seenTries |-> tries[b], todo |-> {}])

-----------------------------------------------------------------------------
(* boothLogin: getPendingCheckInByBooth, then the reset of the booking *)

\* The bookings getPendingCheckInByBooth considers for a student at a booth.
Candidates(who, k) ==
  {b \in Booking : /\ Reserves[b].who = who
                   /\ Reserves[b].booth = k
                   /\ status[b] \in Live
                   /\ InCheckInWindow(Reserves[b], now)}

\* b is the candidate of its student at its booth that starts nearest to now.
IsPendingCheckIn(b) ==
  LET rivals == Candidates(Reserves[b].who, Reserves[b].booth) IN
  /\ b \in rivals
  /\ \A c \in rivals : Distance(Reserves[b], now) <= Distance(Reserves[c], now)

LoginRead(p, b) ==
  /\ proc[p].pc = "idle"
  /\ active[Reserves[b].booth]
  /\ IsPendingCheckIn(b)
  /\ marks[b] < MaxMarks
  /\ Await(p, "login", b)
  /\ UNCHANGED <<world, row, penalties, history>>

\* The update has no condition on the status the row has by now.
LoginWrite(p) ==
  LET b == proc[p].b IN
  /\ proc[p].pc = "login"
  /\ status' = [status EXCEPT ![b] = "CONFIRM"]
  /\ checkin' = [checkin EXCEPT ![b] = "PENDING"]
  /\ End(p)
  /\ UNCHANGED <<world, tries, penalties, history>>

-----------------------------------------------------------------------------
(* CheckinService.verify *)

VerifyRead(p, b) ==
  /\ proc[p].pc = "idle"
  /\ status[b] \in Live
  /\ active[Reserves[b].booth]
  /\ InCheckInWindow(Reserves[b], now)
  /\ marks[b] < MaxMarks /\ failures[b] < MaxFailures
  /\ Await(p, "verify", b)
  /\ UNCHANGED <<world, row, penalties, history>>

\* Mutant of FallbackDue: one failed attempt too few, for any kind of booking.
FallbackEarly(b, attempt) == attempt >= MaxFailed

\* fallbackActivated for a failed match that was the given attempt.
FallbackDue(b, attempt) == Reserves[b].kind = "EXAM" /\ attempt > MaxFailed

\* The status the update writes: it follows the status that was read.
StatusAfterVerify(b, seen, allow) ==
  IF allow /\ seen # "CHECKED_IN" THEN "CHECKED_IN"
  ELSE IF ~allow /\ seen = "CHECKED_IN" THEN "CONFIRM"
  ELSE status[b]

\* The face matched, or the fallback for an EXAM let the student in anyway.
VerifyAllow(p, matched) ==
  LET b == proc[p].b IN
  /\ proc[p].pc = "verify"
  /\ matched \/ FallbackDue(b, proc[p].seenTries + 1)
  /\ status' = [status EXCEPT ![b] = StatusAfterVerify(b, proc[p].seen, TRUE)]
  /\ checkin' = [checkin EXCEPT ![b] = IF matched THEN "PASSED" ELSE "FAILED_BUT_ALLOWED"]
  /\ tries' = [tries EXCEPT ![b] = IF matched THEN 0 ELSE @ + 1]
  /\ failures' = [failures EXCEPT ![b] = IF matched THEN @ ELSE @ + 1]
  /\ entered' = entered \cup {b}
  /\ End(p)
  /\ UNCHANGED <<world, penalties, marks>>

\* Mutant of VerifyDeny: a failed repetition leaves the student checked in.
VerifyIgnore(p) ==
  LET b == proc[p].b IN
  /\ proc[p].pc = "verify"
  /\ ~FallbackDue(b, proc[p].seenTries + 1)
  /\ checkin' = [checkin EXCEPT ![b] = "FAILED"]
  /\ tries' = [tries EXCEPT ![b] = @ + 1]
  /\ failures' = [failures EXCEPT ![b] = @ + 1]
  /\ End(p)
  /\ UNCHANGED <<world, status, penalties, marks, entered>>

\* No match and no fallback: a student who was checked in no longer is.
VerifyDeny(p) ==
  LET b == proc[p].b IN
  /\ proc[p].pc = "verify"
  /\ ~FallbackDue(b, proc[p].seenTries + 1)
  /\ status' = [status EXCEPT ![b] = StatusAfterVerify(b, proc[p].seen, FALSE)]
  /\ checkin' = [checkin EXCEPT ![b] = "FAILED"]
  /\ tries' = [tries EXCEPT ![b] = @ + 1]
  /\ failures' = [failures EXCEPT ![b] = @ + 1]
  /\ End(p)
  /\ UNCHANGED <<world, penalties, marks, entered>>

-----------------------------------------------------------------------------
(* cancel; forceCheckoutByMonitor and forceDeactivateBoothSessionByBoothId *)

\* Staff cancel at any time, the student of the booking before the deadline.
CancelRead(p, b, role) ==
  /\ proc[p].pc = "idle"
  /\ status[b] = "CONFIRM"
  /\ role = "STUDENT" => MayStudentCancel(Reserves[b], now)
  /\ Await(p, "cancel", b)
  /\ UNCHANGED <<world, row, penalties, history>>

CancelWrite(p) ==
  /\ proc[p].pc = "cancel"
  /\ status' = [status EXCEPT ![proc[p].b] = "CANCEL"]
  /\ End(p)
  /\ UNCHANGED <<world, checkin, tries, penalties, history>>

CheckoutRead(p, b) ==
  /\ proc[p].pc = "idle"
  /\ status[b] = "CHECKED_IN"
  /\ Await(p, "checkout", b)
  /\ UNCHANGED <<world, row, penalties, history>>

CheckoutWrite(p) ==
  /\ proc[p].pc = "checkout"
  /\ status' = [status EXCEPT ![proc[p].b] = "COMPLETED"]
  /\ End(p)
  /\ UNCHANGED <<world, checkin, tries, penalties, history>>

-----------------------------------------------------------------------------
(* autoCheckOutExpiredBookings: run by the job, and by every request that   *)
(* looks for the student's active booking                                   *)

SweepRead(p) ==
  LET expired == {b \in Booking : status[b] = "CHECKED_IN" /\ Expired(Reserves[b], now)} IN
  /\ proc[p].pc = "idle"
  /\ p \in Request => expired # {}
  /\ Goto(p, Loop("sweep", None, expired))
  /\ UNCHANGED <<world, row, penalties, history>>

\* updateMany by id only; a job then goes on to the no-shows.
SweepWrite(p) ==
  /\ proc[p].pc = "sweep"
  /\ status' = [b \in Booking |-> IF b \in proc[p].todo THEN "COMPLETED" ELSE status[b]]
  /\ IF p \in Job THEN Goto(p, Loop("swept", None, {})) ELSE End(p)
  /\ UNCHANGED <<world, checkin, tries, penalties, history>>

-----------------------------------------------------------------------------
(* autoMarkNoShowAndApplyPenalty and markBookingNoShowAndApplyPenalty *)

\* The loop over the candidates goes on with the rest of them.
Continue(p, rest) ==
  IF rest = {} THEN End(p) ELSE Goto(p, Loop("noshow", None, rest))

NoShowRead(p) ==
  /\ proc[p].pc = "swept"
  /\ Continue(p, {b \in Booking : status[b] = "CONFIRM" /\ NoShowDue(Reserves[b], now)})
  /\ UNCHANGED <<world, row, penalties, history>>

\* b is the EXAM of its booth that findNextExamBookingForBooth returns.
IsNextExam(b) ==
  LET exams == {c \in Booking : /\ Reserves[c].booth = Reserves[b].booth
                                /\ Reserves[c].kind = "EXAM"
                                /\ status[c] \in Live
                                /\ now <= Reserves[c].end} IN
  /\ b \in exams
  /\ \A c \in exams : Reserves[b].start <= Reserves[c].start

\* A student who walks in to the booth has its next EXAM marked as missed when
\* that is due; the rest of the walk-in is in BookingSlots.
WalkInMark(p, b) ==
  /\ proc[p].pc = "idle"
  /\ active[Reserves[b].booth]
  /\ IsNextExam(b)
  /\ status[b] = "CONFIRM"
  /\ Reserves[b].start + Grace <= now
  /\ Goto(p, Loop("noshow", None, {b}))
  /\ UNCHANGED <<world, row, penalties, history>>

\* Mutant of MarkAbsent: the update forgets its condition on the status.
MarkAnyAbsent(p, b) ==
  /\ proc[p].pc = "noshow"
  /\ b \in proc[p].todo
  /\ status' = [status EXCEPT ![b] = "ABSENT"]
  /\ marks' = [marks EXCEPT ![b] = @ + 1]
  /\ Goto(p, Loop("find", b, proc[p].todo \ {b}))
  /\ UNCHANGED <<world, checkin, tries, penalties, failures, entered>>

\* updateMany where the status is still CONFIRM.
MarkAbsent(p, b) ==
  /\ proc[p].pc = "noshow"
  /\ b \in proc[p].todo
  /\ status[b] = "CONFIRM"
  /\ status' = [status EXCEPT ![b] = "ABSENT"]
  /\ marks' = [marks EXCEPT ![b] = @ + 1]
  /\ Goto(p, Loop("find", b, proc[p].todo \ {b}))
  /\ UNCHANGED <<world, checkin, tries, penalties, failures, entered>>

\* Mutant of SkipMarked: a booking another process marked is charged as well.
ChargeMarked(p, b) ==
  /\ proc[p].pc = "noshow"
  /\ b \in proc[p].todo
  /\ status[b] # "CONFIRM"
  /\ Goto(p, Loop("find", b, proc[p].todo \ {b}))
  /\ UNCHANGED <<world, row, penalties, history>>

\* The update changed no row: the loop goes on to the next candidate.
SkipMarked(p, b) ==
  /\ proc[p].pc = "noshow"
  /\ b \in proc[p].todo
  /\ status[b] # "CONFIRM"
  /\ Continue(p, proc[p].todo \ {b})
  /\ UNCHANGED <<world, row, penalties, history>>

\* findFirst for a penalty the booking already has.
FindPenalty(p) ==
  /\ proc[p].pc = "find"
  /\ IF penalties[proc[p].b] > 0
       THEN Continue(p, proc[p].todo)
       ELSE Goto(p, Loop("charge", proc[p].b, proc[p].todo))
  /\ UNCHANGED <<world, row, penalties, history>>

\* Mutant of ChargePenalty: the penalty is taken back instead of recorded.
RefundPenalty(p) ==
  /\ proc[p].pc = "charge"
  /\ penalties' = [penalties EXCEPT ![proc[p].b] = @ - 1]
  /\ Continue(p, proc[p].todo)
  /\ UNCHANGED <<world, row, history>>

\* PointsService.addTransaction with the reason that the session was missed.
ChargePenalty(p) ==
  /\ proc[p].pc = "charge"
  /\ penalties' = [penalties EXCEPT ![proc[p].b] = @ + 1]
  /\ Continue(p, proc[p].todo)
  /\ UNCHANGED <<world, row, history>>

-----------------------------------------------------------------------------
(* The environment *)

Tick ==
  /\ now < Horizon
  /\ now' = now + 1
  /\ UNCHANGED <<active, row, penalties, proc, history>>

\* A booth leaves or enters service (BoothKiosk, BookingSlots).
BoothStatusChange(k) ==
  /\ active' = [active EXCEPT ![k] = ~@]
  /\ UNCHANGED <<now, row, penalties, proc, history>>

\* A call the process awaits is rejected, or the server restarts.
Fail(p) ==
  /\ proc[p].pc # "idle"
  /\ End(p)
  /\ UNCHANGED <<world, row, penalties, history>>

RequestStep(p) ==
  \/ \E b \in Booking :
       \/ LoginRead(p, b) \/ VerifyRead(p, b) \/ CheckoutRead(p, b) \/ WalkInMark(p, b)
       \/ \E role \in {"STUDENT", "STAFF"} : CancelRead(p, b, role)
  \/ LoginWrite(p) \/ CancelWrite(p) \/ CheckoutWrite(p)
  \/ VerifyDeny(p) \/ \E matched \in BOOLEAN : VerifyAllow(p, matched)

SweepStep(p) == SweepRead(p) \/ SweepWrite(p)

NoShowStep(p) ==
  \/ FindPenalty(p) \/ ChargePenalty(p)
  \/ \E b \in Booking : MarkAbsent(p, b) \/ SkipMarked(p, b)

Next ==
  \/ \E p \in Request : RequestStep(p)
  \/ \E p \in Job : NoShowRead(p)
  \/ \E p \in Process : SweepStep(p) \/ NoShowStep(p) \/ Fail(p)
  \/ \E k \in Booth : BoothStatusChange(k)
  \/ Tick

Spec == Init /\ [][Next]_vars

(***************************************************************************)
(* Fairness of the job only: the clock advances, the job is started again  *)
(* and again and its awaits end; a write it keeps coming to is not         *)
(* rejected every time.  Requests may hang for ever.                       *)
(***************************************************************************)
Fairness ==
  /\ WF_vars(Tick)
  /\ \A p \in Job :
       /\ WF_vars(SweepRead(p)) /\ SF_vars(SweepWrite(p)) /\ SF_vars(NoShowRead(p))
       /\ WF_vars(FindPenalty(p)) /\ WF_vars(ChargePenalty(p))
       /\ \A b \in Booking : SF_vars(MarkAbsent(p, b)) /\ WF_vars(SkipMarked(p, b))

FairSpec == Spec /\ Fairness

-----------------------------------------------------------------------------
(* Properties *)

\* The processes that have marked b as missed and not yet settled its penalty.
Owing(b) == {p \in Process : proc[p].pc \in {"find", "charge"} /\ proc[p].b = b}

(***************************************************************************)
(* markBookingNoShowAndApplyPenalty charges only who made the booking      *)
(* ABSENT: however many jobs and walk-ins mark it at once, the penalties   *)
(* charged and still owed never exceed the times it became ABSENT.         *)
(***************************************************************************)
PenaltyPaidFor ==
  \A b \in Booking : penalties[b] + Cardinality(Owing(b)) <= marks[b]

(***************************************************************************)
(* The candidates of the no-show loop are read long before the last of     *)
(* them is marked.  A booking is marked all the same only while nobody has *)
(* checked in to, cancelled or finished it, and past its deadline.         *)
(***************************************************************************)
OnlyMissedBecomeAbsent ==
  [][\A b \in Booking :
       status[b] # "ABSENT" /\ status'[b] = "ABSENT"
         => status[b] = "CONFIRM" /\ NoShowDue(Reserves[b], now)]_vars

(***************************************************************************)
(* The attempt count is read before the face is compared and reset by any  *)
(* match in between.  A student is nevertheless let in without a match     *)
(* only to an EXAM and after more than MaxFailed failed verifications.     *)
(***************************************************************************)
FallbackEarned ==
  \A b \in Booking :
    checkin[b] = "FAILED_BUT_ALLOWED"
      => Reserves[b].kind = "EXAM" /\ failures[b] > MaxFailed

(***************************************************************************)
(* Nobody stays checked in after a login or a failed verification took the *)
(* entry back.  Holds of one request at a time, whatever the job does; two *)
(* overlapping verifications of one booking break it.                      *)
(***************************************************************************)
EntryWasGranted ==
  \A b \in Booking :
    status[b] = "CHECKED_IN" => checkin[b] \in {"PASSED", "FAILED_BUT_ALLOWED"}

(***************************************************************************)
(* Whatever stale writes do to a row, the job repairs it: from some time   *)
(* on every booking is finished, cancelled or missed, and none is left     *)
(* CONFIRM or CHECKED_IN with its slot in the past.                        *)
(***************************************************************************)
EveryBookingSettles ==
  <>[](\A b \in Booking : status[b] \in {"COMPLETED", "CANCEL", "ABSENT"})

(***************************************************************************)
(* The reason of the penalty says that the session was missed.  A student  *)
(* who was checked in and logs in again at the kiosk is charged as well.   *)
(***************************************************************************)
OnlyAbsenteesPay ==
  \A b \in Booking : penalties[b] > 0 => b \notin entered
=============================================================================
