------------------------ MODULE BookingLifecycleProofs ------------------------
(***************************************************************************)
(* Proofs about BookingLifecycle for every set of bookings, requests and   *)
(* jobs and every value of the policy.                                     *)
(***************************************************************************)
EXTENDS BookingLifecycle, FiniteSetTheorems, TLAPS

-----------------------------------------------------------------------------
(* Types *)

\* The labels at which a process works on one booking.
Working == {"login", "verify", "cancel", "checkout", "find", "charge"}

LEMMA LoopType ==
  ASSUME NEW label \in Label, NEW b \in Booking \cup {None}, NEW todo \in SUBSET Booking
  PROVE  Loop(label, b, todo) \in Local
  BY DEF Loop, Local, BookingStatus

LEMMA IdleType == Idle \in Local /\ Idle.pc = "idle"
  BY LoopType DEF Idle, Loop, Label

LEMMA InitTypeOK == Init => TypeOK
  BY IdleType, BoundsAssumption DEF Init, TypeOK, BookingStatus, CheckinStatus

\* A process that goes to a well-formed local state leaves proc well-formed.
LEMMA GotoType ==
  ASSUME TypeOK, NEW p \in Process, NEW next \in Local, Goto(p, next),
         next.pc \in Working => next.b \in Booking
  PROVE  /\ proc' \in [Process -> Local]
         /\ \A q \in Process : proc'[q].pc \in Working => proc'[q].b \in Booking
  BY DEF TypeOK, Goto, Working

\* The same of a process that ends, that has read a row, and that goes on with
\* the candidates of the no-show loop.
LEMMA EndType ==
  ASSUME TypeOK, NEW p \in Process, End(p)
  PROVE  /\ proc' \in [Process -> Local]
         /\ \A q \in Process : proc'[q].pc \in Working => proc'[q].b \in Booking
  BY IdleType, GotoType DEF End, Working

LEMMA AwaitType ==
  ASSUME TypeOK, NEW p \in Process, NEW b \in Booking,
         NEW label \in {"login", "verify", "cancel", "checkout"}, Await(p, label, b)
  PROVE  /\ proc' \in [Process -> Local]
         /\ \A q \in Process : proc'[q].pc \in Working => proc'[q].b \in Booking
<1> DEFINE next == [pc |-> label, b |-> b, seen |-> status[b], seenTries |-> tries[b], todo |-> {}]
<1>1. next \in Local /\ next.b = b
  <2>1. status[b] \in BookingStatus /\ tries[b] \in Nat
    BY DEF TypeOK
  <2>2. label \in Label
    BY DEF Label
  <2> QED
    BY <2>1, <2>2 DEF Local
<1>2. Goto(p, next)
  BY DEF Await
<1> QED
  BY <1>1, <1>2, GotoType

LEMMA ContinueType ==
  ASSUME TypeOK, NEW p \in Process, NEW rest \in SUBSET Booking, Continue(p, rest)
  PROVE  /\ proc' \in [Process -> Local]
         /\ \A q \in Process : proc'[q].pc \in Working => proc'[q].b \in Booking
<1>1. CASE rest = {}
  BY <1>1, EndType DEF Continue
<1>2. CASE rest # {}
  <2>1. Loop("noshow", None, rest) \in Local /\ Loop("noshow", None, rest).pc = "noshow"
    BY LoopType DEF Label, Loop
  <2> QED
    BY <1>2, <2>1, GotoType DEF Continue, Working
<1> QED
  BY <1>1, <1>2

LEMMA NextTypeOK == TypeOK /\ [Next]_vars => TypeOK'
<1> SUFFICES ASSUME TypeOK, [Next]_vars
             PROVE  TypeOK'
  OBVIOUS
<1> DEFINE ProcOK == /\ proc' \in [Process -> Local]
                     /\ \A q \in Process : proc'[q].pc \in Working => proc'[q].b \in Booking
<1> USE DEF world, row, history
<1>p. ASSUME NEW p \in Request PROVE p \in Process
  BY DEF Process
<1>1. ASSUME NEW p \in Request, NEW b \in Booking, NEW role \in {"STUDENT", "STAFF"},
             \/ LoginRead(p, b) \/ VerifyRead(p, b) \/ CheckoutRead(p, b)
             \/ CancelRead(p, b, role)
      PROVE  TypeOK'
  <2>1. ProcOK
    BY <1>1, <1>p, AwaitType DEF LoginRead, VerifyRead, CheckoutRead, CancelRead
  <2> QED
    BY <1>1, <2>1 DEF LoginRead, VerifyRead, CheckoutRead, CancelRead, TypeOK, Working
<1>2. ASSUME NEW p \in Request, NEW b \in Booking, WalkInMark(p, b)
      PROVE  TypeOK'
  <2>1. Loop("noshow", None, {b}) \in Local /\ Loop("noshow", None, {b}).pc = "noshow"
    BY LoopType DEF Label, Loop
  <2>2. ProcOK
    BY <1>2, <1>p, <2>1, GotoType DEF WalkInMark, Working
  <2> QED
    BY <1>2, <2>2 DEF WalkInMark, TypeOK, Working
<1>3. ASSUME NEW p \in Request, LoginWrite(p) \/ CancelWrite(p) \/ CheckoutWrite(p)
      PROVE  TypeOK'
  <2>1. ProcOK
    BY <1>3, <1>p, EndType DEF LoginWrite, CancelWrite, CheckoutWrite
  <2> QED
    BY <1>3, <1>p, <2>1
       DEF LoginWrite, CancelWrite, CheckoutWrite, TypeOK, Working, BookingStatus, CheckinStatus
<1>4. ASSUME NEW p \in Request, NEW matched \in BOOLEAN, VerifyAllow(p, matched)
      PROVE  TypeOK'
  <2> DEFINE b == proc[p].b
  <2>1. ProcOK
    BY <1>4, <1>p, EndType DEF VerifyAllow
  <2>2. b \in Booking
    BY <1>4, <1>p DEF VerifyAllow, TypeOK
  <2>3. StatusAfterVerify(b, proc[p].seen, TRUE) \in BookingStatus
    BY <2>2 DEF StatusAfterVerify, TypeOK, BookingStatus
  <2>4. status' \in [Booking -> BookingStatus] /\ checkin' \in [Booking -> CheckinStatus]
    BY <1>4, <2>2, <2>3 DEF VerifyAllow, TypeOK, CheckinStatus
  <2>5. tries' \in [Booking -> Nat] /\ failures' \in [Booking -> Nat]
    BY <1>4, <2>2 DEF VerifyAllow, TypeOK
  <2> QED
    BY <1>4, <2>1, <2>2, <2>4, <2>5 DEF VerifyAllow, TypeOK, Working
<1>5. ASSUME NEW p \in Request, VerifyDeny(p)
      PROVE  TypeOK'
  <2> DEFINE b == proc[p].b
  <2>1. ProcOK
    BY <1>5, <1>p, EndType DEF VerifyDeny
  <2>2. b \in Booking
    BY <1>5, <1>p DEF VerifyDeny, TypeOK
  <2>3. StatusAfterVerify(b, proc[p].seen, FALSE) \in BookingStatus
    BY <2>2 DEF StatusAfterVerify, TypeOK, BookingStatus
  <2>4. status' \in [Booking -> BookingStatus] /\ checkin' \in [Booking -> CheckinStatus]
    BY <1>5, <2>2, <2>3 DEF VerifyDeny, TypeOK, CheckinStatus
  <2>5. tries' \in [Booking -> Nat] /\ failures' \in [Booking -> Nat]
    BY <1>5, <2>2 DEF VerifyDeny, TypeOK
  <2> QED
    BY <1>5, <2>1, <2>4, <2>5 DEF VerifyDeny, TypeOK, Working
<1>6. ASSUME NEW p \in Process, SweepRead(p)
      PROVE  TypeOK'
  <2> DEFINE expired == {b \in Booking : status[b] = "CHECKED_IN" /\ Expired(Reserves[b], now)}
  <2>1. Loop("sweep", None, expired) \in Local /\ Loop("sweep", None, expired).pc = "sweep"
    BY LoopType DEF Label, Loop
  <2>2. ProcOK
    BY <1>6, <2>1, GotoType DEF SweepRead, Working
  <2> QED
    BY <1>6, <2>2 DEF SweepRead, TypeOK, Working
<1>7. ASSUME NEW p \in Process, SweepWrite(p)
      PROVE  TypeOK'
  <2>1. Loop("swept", None, {}) \in Local /\ Loop("swept", None, {}).pc = "swept"
    BY LoopType DEF Label, Loop
  <2>2. ProcOK
    BY <1>7, <2>1, GotoType, EndType DEF SweepWrite, Working
  <2>3. status' \in [Booking -> BookingStatus]
    BY <1>7 DEF SweepWrite, TypeOK, BookingStatus
  <2> QED
    BY <1>7, <2>2, <2>3 DEF SweepWrite, TypeOK, Working
<1>8. ASSUME NEW p \in Job, NoShowRead(p)
      PROVE  TypeOK'
  <2>1. ProcOK
    BY <1>8, ContinueType DEF NoShowRead, Process
  <2> QED
    BY <1>8, <2>1 DEF NoShowRead, TypeOK, Working
<1>9. ASSUME NEW p \in Process, NEW b \in Booking, MarkAbsent(p, b)
      PROVE  TypeOK'
  <2> DEFINE next == Loop("find", b, proc[p].todo \ {b})
  <2>0. proc[p].todo \in SUBSET Booking
    BY DEF TypeOK, Local
  <2>1. next \in Local /\ next.b = b
    BY <2>0, LoopType DEF Label, Loop
  <2>2. ProcOK
    BY <1>9, <2>1, GotoType DEF MarkAbsent
  <2> QED
    BY <1>9, <2>2 DEF MarkAbsent, TypeOK, Working, BookingStatus
<1>10. ASSUME NEW p \in Process, NEW b \in Booking, SkipMarked(p, b)
       PROVE  TypeOK'
  <2>1. proc[p].todo \ {b} \in SUBSET Booking
    BY DEF TypeOK, Local
  <2>2. ProcOK
    BY <1>10, <2>1, ContinueType DEF SkipMarked
  <2> QED
    BY <1>10, <2>2 DEF SkipMarked, TypeOK, Working
<1>11. ASSUME NEW p \in Process, FindPenalty(p)
       PROVE  TypeOK'
  <2> DEFINE next == Loop("charge", proc[p].b, proc[p].todo)
  <2>0. proc[p].todo \in SUBSET Booking /\ proc[p].b \in Booking
    BY <1>11 DEF FindPenalty, TypeOK, Local
  <2>1. next \in Local /\ next.b \in Booking
    BY <2>0, LoopType DEF Label, Loop
  <2>2. ProcOK
    BY <1>11, <2>0, <2>1, ContinueType, GotoType DEF FindPenalty
  <2> QED
    BY <1>11, <2>2 DEF FindPenalty, TypeOK, Working
<1>12. ASSUME NEW p \in Process, ChargePenalty(p)
       PROVE  TypeOK'
  <2>0. proc[p].todo \in SUBSET Booking /\ proc[p].b \in Booking
    BY <1>12 DEF ChargePenalty, TypeOK, Local
  <2>1. ProcOK
    BY <1>12, <2>0, ContinueType DEF ChargePenalty
  <2> QED
    BY <1>12, <2>0, <2>1 DEF ChargePenalty, TypeOK, Working
<1>13. ASSUME NEW p \in Process, Fail(p)
       PROVE  TypeOK'
  <2>1. ProcOK
    BY <1>13, EndType DEF Fail
  <2> QED
    BY <1>13, <2>1 DEF Fail, TypeOK, Working
<1>14. CASE Tick
  BY <1>14, BoundsAssumption DEF Tick, TypeOK
<1>16. ASSUME NEW k \in Booth, BoothStatusChange(k)
       PROVE  TypeOK'
  BY <1>16 DEF BoothStatusChange, TypeOK
<1>15. CASE UNCHANGED vars
  BY <1>15 DEF vars, TypeOK
<1> QED
  BY <1>1, <1>2, <1>3, <1>4, <1>5, <1>6, <1>7, <1>8, <1>9, <1>10, <1>11,
     <1>12, <1>13, <1>14, <1>15, <1>16 DEF Next, RequestStep, SweepStep, NoShowStep

(***************************************************************************)
(* The rows and what every handler holds of them keep their types, in      *)
(* every behaviour of the booking handlers and the job.                    *)
(***************************************************************************)
THEOREM LifecycleTypes == Spec => []TypeOK
  BY InitTypeOK, NextTypeOK, PTL DEF Spec

-----------------------------------------------------------------------------
(* Penalties *)

Settling == {"find", "charge"}

\* A step that marks nobody and charges nobody hands no penalty to a process.
QuietStep ==
  /\ UNCHANGED <<penalties, marks>>
  /\ \A q \in Process :
       proc'[q].pc \in Settling => proc[q].pc \in Settling /\ proc'[q].b = proc[q].b

\* Where the process is that a step moves.
LEMMA GotoQuiet ==
  ASSUME TypeOK, NEW p \in Process, NEW next, Goto(p, next),
         next.pc \in Settling => proc[p].pc \in Settling /\ next.b = proc[p].b
  PROVE  \A q \in Process :
           proc'[q].pc \in Settling => proc[q].pc \in Settling /\ proc'[q].b = proc[q].b
  BY DEF TypeOK, Goto

LEMMA ContinueQuiet ==
  ASSUME TypeOK, NEW p \in Process, NEW rest, Continue(p, rest) \/ End(p)
  PROVE  /\ \A q \in Process :
              proc'[q].pc \in Settling => proc[q].pc \in Settling /\ proc'[q].b = proc[q].b
         /\ proc'[p].pc \notin Settling
         /\ \A q \in Process \ {p} : proc'[q] = proc[q]
<1>1. Idle.pc \notin Settling /\ Loop("noshow", None, rest).pc \notin Settling
  BY DEF Idle, Loop, Settling
<1>2. \/ Goto(p, Idle)
      \/ Goto(p, Loop("noshow", None, rest))
  BY DEF Continue, End
<1> QED
  BY <1>1, <1>2 DEF Goto, TypeOK

LEMMA StepIsQuiet ==
  ASSUME TypeOK, [Next]_vars
  PROVE  \/ QuietStep
         \/ \E p \in Process : ChargePenalty(p)
         \/ \E p \in Process, b \in Booking : MarkAbsent(p, b)
<1> USE DEF QuietStep, history
<1>p. ASSUME NEW p \in Request PROVE p \in Process
  BY DEF Process
<1>1. ASSUME NEW p \in Request, NEW b \in Booking, NEW role \in {"STUDENT", "STAFF"},
             \/ LoginRead(p, b) \/ VerifyRead(p, b) \/ CheckoutRead(p, b)
             \/ CancelRead(p, b, role)
      PROVE  QuietStep
  <2>1. PICK label \in {"login", "verify", "cancel", "checkout"} : Await(p, label, b)
    BY <1>1 DEF LoginRead, VerifyRead, CheckoutRead, CancelRead
  <2> QED
    BY <1>1, <1>p, <2>1, GotoQuiet
       DEF Await, LoginRead, VerifyRead, CheckoutRead, CancelRead, Settling
<1>2. ASSUME NEW p \in Request, NEW b \in Booking, WalkInMark(p, b)
      PROVE  QuietStep
  BY <1>2, <1>p, GotoQuiet DEF WalkInMark, Loop, Settling
<1>3. ASSUME NEW p \in Request,
             LoginWrite(p) \/ CancelWrite(p) \/ CheckoutWrite(p) \/ VerifyDeny(p)
      PROVE  QuietStep
  BY <1>3, <1>p, ContinueQuiet DEF LoginWrite, CancelWrite, CheckoutWrite, VerifyDeny
<1>4. ASSUME NEW p \in Request, NEW matched \in BOOLEAN, VerifyAllow(p, matched)
      PROVE  QuietStep
  BY <1>4, <1>p, ContinueQuiet DEF VerifyAllow
<1>5. ASSUME NEW p \in Process, SweepRead(p)
      PROVE  QuietStep
  BY <1>5, GotoQuiet DEF SweepRead, Loop, Settling
<1>6. ASSUME NEW p \in Process, SweepWrite(p)
      PROVE  QuietStep
  BY <1>6, GotoQuiet, ContinueQuiet DEF SweepWrite, Loop, Settling
<1>7. ASSUME NEW p \in Job, NoShowRead(p)
      PROVE  QuietStep
  BY <1>7, ContinueQuiet DEF NoShowRead, Process
<1>8. ASSUME NEW p \in Process, NEW b \in Booking, SkipMarked(p, b)
      PROVE  QuietStep
  BY <1>8, ContinueQuiet DEF SkipMarked
<1>9. ASSUME NEW p \in Process, FindPenalty(p)
      PROVE  QuietStep
  BY <1>9, ContinueQuiet, GotoQuiet DEF FindPenalty, Loop, Settling
<1>10. ASSUME NEW p \in Process, Fail(p)
       PROVE  QuietStep
  BY <1>10, ContinueQuiet DEF Fail
<1>11. CASE Tick \/ (\E k \in Booth : BoothStatusChange(k)) \/ UNCHANGED vars
  BY <1>11 DEF Tick, BoothStatusChange, vars
<1> QED
  BY <1>1, <1>2, <1>3, <1>4, <1>5, <1>6, <1>7, <1>8, <1>9, <1>10, <1>11
     DEF Next, RequestStep, SweepStep, NoShowStep

LEMMA OwingFinite ==
  \A b : IsFiniteSet(Owing(b)) /\ Cardinality(Owing(b)) \in Nat
<1> TAKE b
<1>1. Owing(b) \subseteq Process
  BY DEF Owing
<1> QED
  BY <1>1, ProcessAssumption, FS_Subset, FS_CardinalityType

LEMMA InitPenaltyPaidFor == Init => PenaltyPaidFor
<1> SUFFICES ASSUME Init, NEW b \in Booking
             PROVE  penalties[b] + Cardinality(Owing(b)) <= marks[b]
  BY DEF PenaltyPaidFor
<1>1. Owing(b) = {}
  BY IdleType DEF Init, Owing
<1> QED
  BY <1>1, FS_EmptySet DEF Init

LEMMA NextPenaltyPaidFor ==
  TypeOK /\ PenaltyPaidFor /\ [Next]_vars => PenaltyPaidFor'
<1> SUFFICES ASSUME TypeOK, PenaltyPaidFor, [Next]_vars, NEW c \in Booking
             PROVE  penalties'[c] + Cardinality(Owing(c)') <= marks'[c]
  BY DEF PenaltyPaidFor
<1>n. penalties[c] \in Nat /\ marks[c] \in Nat /\ Cardinality(Owing(c)) \in Nat
  BY OwingFinite DEF TypeOK
<1>i. penalties[c] + Cardinality(Owing(c)) <= marks[c]
  BY DEF PenaltyPaidFor
<1>1. CASE QuietStep
  <2>1. Owing(c)' \subseteq Owing(c)
    BY <1>1 DEF QuietStep, Owing, Settling
  <2>2. Cardinality(Owing(c)') \in Nat /\ Cardinality(Owing(c)') <= Cardinality(Owing(c))
    BY <2>1, OwingFinite, FS_Subset, FS_CardinalityType
  <2> QED
    BY <1>1, <1>n, <1>i, <2>2 DEF QuietStep
<1>2. ASSUME NEW p \in Process, ChargePenalty(p)
      PROVE  penalties'[c] + Cardinality(Owing(c)') <= marks'[c]
  <2>1. Owing(c)' = Owing(c) \ {p}
    BY <1>2, ContinueQuiet DEF ChargePenalty, Owing, Settling
  <2>2. marks' = marks /\ penalties' = [penalties EXCEPT ![proc[p].b] = @ + 1]
    BY <1>2 DEF ChargePenalty, history
  <2>3. CASE proc[p].b = c
    <3>1. p \in Owing(c)
      BY <1>2, <2>3 DEF ChargePenalty, Owing
    <3>2. Cardinality(Owing(c)') = Cardinality(Owing(c)) - 1
      BY <2>1, <3>1, OwingFinite, FS_RemoveElement
    <3>3. penalties'[c] = penalties[c] + 1
      BY <2>2, <2>3 DEF TypeOK
    <3> QED
      BY <2>2, <3>2, <3>3, <1>n, <1>i
  <2>4. CASE proc[p].b # c
    <3>1. Owing(c)' = Owing(c)
      BY <2>1, <2>4 DEF Owing
    <3>2. penalties'[c] = penalties[c]
      BY <2>2, <2>4 DEF TypeOK
    <3> QED
      BY <2>2, <3>1, <3>2, <1>i
  <2> QED
    BY <2>3, <2>4
<1>3. ASSUME NEW p \in Process, NEW b \in Booking, MarkAbsent(p, b)
      PROVE  penalties'[c] + Cardinality(Owing(c)') <= marks'[c]
  <2>1. p \notin Owing(c)
    BY <1>3 DEF MarkAbsent, Owing
  <2>2. /\ proc'[p].pc = "find" /\ proc'[p].b = b
        /\ \A q \in Process \ {p} : proc'[q] = proc[q]
    BY <1>3 DEF MarkAbsent, Goto, Loop, TypeOK
  <2>3. penalties' = penalties /\ marks' = [marks EXCEPT ![b] = @ + 1]
    BY <1>3 DEF MarkAbsent
  <2>4. CASE b = c
    <3>1. Owing(c)' = Owing(c) \cup {p}
      BY <2>2, <2>4 DEF Owing
    <3>2. Cardinality(Owing(c)') = Cardinality(Owing(c)) + 1
      BY <2>1, <3>1, OwingFinite, FS_AddElement
    <3>3. marks'[c] = marks[c] + 1
      BY <2>3, <2>4 DEF TypeOK
    <3> QED
      BY <2>3, <3>2, <3>3, <1>n, <1>i
  <2>5. CASE b # c
    <3>1. Owing(c)' = Owing(c)
      BY <2>1, <2>2, <2>5 DEF Owing
    <3>2. marks'[c] = marks[c]
      BY <2>3, <2>5 DEF TypeOK
    <3> QED
      BY <2>3, <3>1, <3>2, <1>i
  <2> QED
    BY <2>4, <2>5
<1> QED
  BY <1>1, <1>2, <1>3, StepIsQuiet

(***************************************************************************)
(* However many runs of the job and walk-ins overlap, and whatever stale   *)
(* writes do to the row, no booking is charged more penalties than it was  *)
(* marked ABSENT.                                                          *)
(***************************************************************************)
THEOREM PenaltiesArePaidFor == Spec => []PenaltyPaidFor
<1>1. TypeOK /\ PenaltyPaidFor /\ [Next]_vars => TypeOK' /\ PenaltyPaidFor'
  BY NextTypeOK, NextPenaltyPaidFor
<1> QED
  BY InitTypeOK, InitPenaltyPaidFor, <1>1, PTL DEF Spec

-----------------------------------------------------------------------------
(* Who is marked as missed *)

(***************************************************************************)
(* What was missed when the loop was read is still past its deadline: the  *)
(* clock does not run back.  A sweep carries bookings of another kind.     *)
(***************************************************************************)
TodoIsDue ==
  \A p \in Process :
    proc[p].pc \in {"noshow", "find", "charge"}
      => \A b \in proc[p].todo : NoShowDue(Reserves[b], now)

LEMMA InitTodoIsDue == Init => TodoIsDue
  BY IdleType DEF Init, TodoIsDue

\* A process that moves carries only bookings that are due.
LEMMA GotoDue ==
  ASSUME TypeOK, TodoIsDue, now' = now, NEW p \in Process, NEW next, Goto(p, next),
         next.pc \in {"noshow", "find", "charge"}
           => \A b \in next.todo : NoShowDue(Reserves[b], now)
  PROVE  TodoIsDue'
  BY DEF TypeOK, Goto, TodoIsDue, NoShowDue, Expired

LEMMA ContinueDue ==
  ASSUME TypeOK, TodoIsDue, now' = now, NEW p \in Process, NEW rest,
         Continue(p, rest) \/ End(p),
         \A b \in rest : NoShowDue(Reserves[b], now)
  PROVE  TodoIsDue'
<1>1. Idle.pc = "idle" /\ Loop("noshow", None, rest).todo = rest
  BY DEF Idle, Loop
<1>2. \/ Goto(p, Idle)
      \/ Goto(p, Loop("noshow", None, rest))
  BY DEF Continue, End
<1> QED
  BY <1>1, <1>2, GotoDue

LEMMA EndDue ==
  ASSUME TypeOK, TodoIsDue, now' = now, NEW p \in Process, End(p)
  PROVE  TodoIsDue'
  BY IdleType, GotoDue DEF End

LEMMA NextTodoIsDue == TypeOK /\ TodoIsDue /\ [Next]_vars => TodoIsDue'
<1> SUFFICES ASSUME TypeOK, TodoIsDue, [Next]_vars
             PROVE  TodoIsDue'
  OBVIOUS
<1> USE DEF world
<1>p. ASSUME NEW p \in Request PROVE p \in Process
  BY DEF Process
<1>1. ASSUME NEW p \in Request, NEW b \in Booking, NEW role \in {"STUDENT", "STAFF"},
             \/ LoginRead(p, b) \/ VerifyRead(p, b) \/ CheckoutRead(p, b)
             \/ CancelRead(p, b, role)
      PROVE  TodoIsDue'
  <2>1. PICK label \in {"login", "verify", "cancel", "checkout"} : Await(p, label, b)
    BY <1>1 DEF LoginRead, VerifyRead, CheckoutRead, CancelRead
  <2>2. now' = now
    BY <1>1 DEF LoginRead, VerifyRead, CheckoutRead, CancelRead
  <2> QED
    BY <1>p, <2>1, <2>2, GotoDue DEF Await
<1>2. ASSUME NEW p \in Request, NEW b \in Booking, WalkInMark(p, b)
      PROVE  TodoIsDue'
  <2>1. NoShowDue(Reserves[b], now) /\ now' = now
    BY <1>2 DEF WalkInMark, IsNextExam, NoShowDue
  <2>2. Goto(p, Loop("noshow", None, {b})) /\ Loop("noshow", None, {b}).todo = {b}
    BY <1>2 DEF WalkInMark, Loop
  <2> QED
    BY <1>p, <2>1, <2>2, GotoDue
<1>3. ASSUME NEW p \in Request,
             LoginWrite(p) \/ CancelWrite(p) \/ CheckoutWrite(p) \/ VerifyDeny(p)
      PROVE  TodoIsDue'
  <2>1. End(p) /\ now' = now
    BY <1>3 DEF LoginWrite, CancelWrite, CheckoutWrite, VerifyDeny
  <2> QED
    BY <1>p, <2>1, EndDue
<1>4. ASSUME NEW p \in Request, NEW matched \in BOOLEAN, VerifyAllow(p, matched)
      PROVE  TodoIsDue'
  <2>1. End(p) /\ now' = now
    BY <1>4 DEF VerifyAllow
  <2> QED
    BY <1>p, <2>1, EndDue
<1>5. ASSUME NEW p \in Process, SweepStep(p)
      PROVE  TodoIsDue'
  <2>1. now' = now
    BY <1>5 DEF SweepStep, SweepRead, SweepWrite
  <2>2. PICK next : Goto(p, next) /\ next.pc \in {"idle", "sweep", "swept"}
    BY <1>5 DEF SweepStep, SweepRead, SweepWrite, End, Idle, Loop
  <2> QED
    BY <2>1, <2>2, GotoDue
<1>6. ASSUME NEW p \in Job, NoShowRead(p)
      PROVE  TodoIsDue'
  <2> DEFINE due == {b \in Booking : status[b] = "CONFIRM" /\ NoShowDue(Reserves[b], now)}
  <2>1. Continue(p, due) /\ now' = now /\ p \in Process
    BY <1>6 DEF NoShowRead, Process
  <2> QED
    BY <2>1, ContinueDue
<1>7. ASSUME NEW p \in Process, NEW b \in Booking, MarkAbsent(p, b)
      PROVE  TodoIsDue'
  <2>1. Goto(p, Loop("find", b, proc[p].todo \ {b})) /\ now' = now
    BY <1>7 DEF MarkAbsent
  <2>2. \A c \in proc[p].todo : NoShowDue(Reserves[c], now)
    BY <1>7 DEF MarkAbsent, TodoIsDue
  <2>3. Loop("find", b, proc[p].todo \ {b}).todo = proc[p].todo \ {b}
    BY DEF Loop
  <2> QED
    BY <2>1, <2>2, <2>3, GotoDue
<1>8. ASSUME NEW p \in Process, NEW b \in Booking, SkipMarked(p, b)
      PROVE  TodoIsDue'
  BY <1>8, ContinueDue DEF SkipMarked, TodoIsDue
<1>9. ASSUME NEW p \in Process, FindPenalty(p)
      PROVE  TodoIsDue'
  <2>1. /\ \/ Continue(p, proc[p].todo)
           \/ Goto(p, Loop("charge", proc[p].b, proc[p].todo))
        /\ now' = now
    BY <1>9 DEF FindPenalty
  <2>2. \A c \in proc[p].todo : NoShowDue(Reserves[c], now)
    BY <1>9 DEF FindPenalty, TodoIsDue
  <2>3. Loop("charge", proc[p].b, proc[p].todo).todo = proc[p].todo
    BY DEF Loop
  <2> QED
    BY <2>1, <2>2, <2>3, GotoDue, ContinueDue
<1>10. ASSUME NEW p \in Process, ChargePenalty(p)
       PROVE  TodoIsDue'
  BY <1>10, ContinueDue DEF ChargePenalty, TodoIsDue
<1>11. ASSUME NEW p \in Process, Fail(p)
       PROVE  TodoIsDue'
  BY <1>11, EndDue DEF Fail
<1>12. CASE Tick
  <2>1. \A b \in Booking : NoShowDue(Reserves[b], now) => NoShowDue(Reserves[b], now + 1)
    <3> SUFFICES ASSUME NEW b \in Booking, NoShowDue(Reserves[b], now)
                 PROVE  NoShowDue(Reserves[b], now + 1)
      OBVIOUS
    <3>1. Reserves[b].start \in Nat /\ Reserves[b].end \in Nat /\ Grace \in Nat /\ now \in Nat
      BY ReservesAssumption, LengthsAssumption, BoundsAssumption DEF Slot, TypeOK
    <3> QED
      BY <3>1 DEF NoShowDue, Expired
  <2>2. \A p \in Process : proc[p].todo \subseteq Booking
    BY DEF TypeOK, Local
  <2>3. now' = now + 1 /\ proc' = proc
    BY <1>12 DEF Tick
  <2> QED
    BY <2>1, <2>2, <2>3 DEF TodoIsDue
<1>13. CASE (\E k \in Booth : BoothStatusChange(k)) \/ UNCHANGED vars
  BY <1>13 DEF BoothStatusChange, vars, TodoIsDue
<1> QED
  BY <1>1, <1>2, <1>3, <1>4, <1>5, <1>6, <1>7, <1>8, <1>9, <1>10, <1>11, <1>12,
     <1>13 DEF Next, RequestStep, NoShowStep

\* Only MarkAbsent makes a booking ABSENT.
LEMMA AbsentStep ==
  ASSUME TypeOK, [Next]_vars, NEW b \in Booking,
         status[b] # "ABSENT", status'[b] = "ABSENT"
  PROVE  \E p \in Process : MarkAbsent(p, b)
<1> USE DEF row
<1>1. ASSUME NEW p \in Request, \/ LoginWrite(p) \/ CancelWrite(p) \/ CheckoutWrite(p)
                               \/ VerifyDeny(p) \/ \E matched \in BOOLEAN : VerifyAllow(p, matched)
      PROVE  FALSE
  <2> DEFINE c == proc[p].b
  <2>1. ASSUME NEW s, status' = [status EXCEPT ![c] = s], s # "ABSENT" \/ s = status[c]
        PROVE  FALSE
    BY <2>1 DEF TypeOK
  <2>2. \A allow : StatusAfterVerify(c, proc[p].seen, allow) \in {"CHECKED_IN", "CONFIRM", status[c]}
    BY DEF StatusAfterVerify
  <2> QED
    BY <1>1, <2>1, <2>2 DEF LoginWrite, CancelWrite, CheckoutWrite, VerifyDeny, VerifyAllow
<1>2. ASSUME NEW p \in Process, SweepWrite(p)
      PROVE  FALSE
  BY <1>2 DEF SweepWrite, TypeOK
<1>3. ASSUME NEW p \in Process, NEW c \in Booking, MarkAbsent(p, c)
      PROVE  c = b
  BY <1>3 DEF MarkAbsent, TypeOK
<1>4. ASSUME NEW p \in Request, NEW c \in Booking, NEW role \in {"STUDENT", "STAFF"},
             \/ LoginRead(p, c) \/ VerifyRead(p, c) \/ CheckoutRead(p, c)
             \/ CancelRead(p, c, role) \/ WalkInMark(p, c)
      PROVE  FALSE
  BY <1>4 DEF LoginRead, VerifyRead, CheckoutRead, CancelRead, WalkInMark
<1>5. ASSUME NEW p \in Process,
             \/ SweepRead(p) \/ NoShowRead(p) \/ FindPenalty(p) \/ ChargePenalty(p) \/ Fail(p)
             \/ \E c \in Booking : SkipMarked(p, c)
      PROVE  FALSE
  BY <1>5 DEF SweepRead, NoShowRead, FindPenalty, ChargePenalty, Fail, SkipMarked
<1>6. CASE Tick \/ (\E k \in Booth : BoothStatusChange(k)) \/ UNCHANGED vars
  BY <1>6 DEF Tick, BoothStatusChange, vars
<1> QED
  BY <1>1, <1>2, <1>3, <1>4, <1>5, <1>6 DEF Next, RequestStep, SweepStep, NoShowStep, Process

(***************************************************************************)
(* A booking becomes ABSENT only while it is CONFIRM and past its          *)
(* deadline, although the loop read it long before.                        *)
(***************************************************************************)
THEOREM AbsentMeansMissed == Spec => OnlyMissedBecomeAbsent
<1> DEFINE Marked(b) == status[b] # "ABSENT" /\ status'[b] = "ABSENT"
                          => status[b] = "CONFIRM" /\ NoShowDue(Reserves[b], now)
<1>1. TypeOK /\ TodoIsDue /\ [Next]_vars => [\A b \in Booking : Marked(b)]_vars
  <2> SUFFICES ASSUME TypeOK, TodoIsDue, [Next]_vars, NEW b \in Booking,
                      status[b] # "ABSENT", status'[b] = "ABSENT"
               PROVE  status[b] = "CONFIRM" /\ NoShowDue(Reserves[b], now)
    OBVIOUS
  <2>1. PICK p \in Process : MarkAbsent(p, b)
    BY AbsentStep
  <2> QED
    BY <2>1 DEF MarkAbsent, TodoIsDue
<1>2. TypeOK /\ TodoIsDue /\ [Next]_vars => TypeOK' /\ TodoIsDue'
  BY NextTypeOK, NextTodoIsDue
<1> QED
  BY InitTypeOK, InitTodoIsDue, <1>1, <1>2, PTL DEF Spec, OnlyMissedBecomeAbsent

-----------------------------------------------------------------------------
(* Who is let in *)

(***************************************************************************)
(* No request counts more failed attempts of a booking than there were:    *)
(* the column is reset by a match, and a request that read it earlier may  *)
(* hold more than the column, but not more than the history.               *)
(***************************************************************************)
CountedInv ==
  /\ \A b \in Booking : tries[b] <= failures[b]
  /\ \A p \in Process :
       proc[p].pc = "verify" => proc[p].seenTries <= failures[proc[p].b]
  /\ FallbackEarned

\* A step that leaves the counts alone and reads them into no process.
UncountedStep ==
  /\ UNCHANGED <<tries, failures>>
  /\ \A b \in Booking : checkin'[b] = "FAILED_BUT_ALLOWED" => checkin[b] = "FAILED_BUT_ALLOWED"
  /\ \A q \in Process : proc'[q].pc = "verify" => proc'[q] = proc[q]

LEMMA UncountedKeeps ==
  ASSUME TypeOK, CountedInv, UncountedStep
  PROVE  CountedInv'
  BY DEF UncountedStep, CountedInv, FallbackEarned, TypeOK

LEMMA GotoUncounted ==
  ASSUME TypeOK, NEW p \in Process, NEW next, Goto(p, next), next.pc # "verify"
  PROVE  \A q \in Process : proc'[q].pc = "verify" => proc'[q] = proc[q]
  BY DEF TypeOK, Goto

LEMMA ContinueUncounted ==
  ASSUME TypeOK, NEW p \in Process, NEW rest, Continue(p, rest) \/ End(p)
  PROVE  \A q \in Process : proc'[q].pc = "verify" => q # p /\ proc'[q] = proc[q]
<1>1. Idle.pc = "idle" /\ Loop("noshow", None, rest).pc = "noshow"
  BY DEF Idle, Loop
<1>2. \/ Goto(p, Idle)
      \/ Goto(p, Loop("noshow", None, rest))
  BY DEF Continue, End
<1> QED
  BY <1>1, <1>2 DEF TypeOK, Goto

\* No step of a loop starts a verification or ends one.
LEMMA LoopUncounted ==
  ASSUME TypeOK, NEW p \in Process,
         \/ SweepStep(p) \/ NoShowRead(p) \/ NoShowStep(p) \/ Fail(p)
         \/ \E b \in Booking : WalkInMark(p, b)
  PROVE  \A q \in Process : proc'[q].pc = "verify" => proc'[q] = proc[q]
<1> DEFINE Keeps == \A q \in Process : proc'[q].pc = "verify" => proc'[q] = proc[q]
<1>1. \A b, todo : /\ Loop("sweep", b, todo).pc = "sweep" /\ Loop("noshow", b, todo).pc = "noshow"
                   /\ Loop("swept", b, todo).pc = "swept" /\ Loop("find", b, todo).pc = "find"
                   /\ Loop("charge", b, todo).pc = "charge"
  BY DEF Loop
<1>2. CASE SweepRead(p)
  BY <1>1, <1>2, GotoUncounted DEF SweepRead
<1>3. CASE SweepWrite(p)
  BY <1>1, <1>3, GotoUncounted, ContinueUncounted DEF SweepWrite
<1>4. ASSUME NEW b \in Booking, WalkInMark(p, b) PROVE Keeps
  BY <1>1, <1>4, GotoUncounted DEF WalkInMark
<1>5. CASE \/ NoShowRead(p) \/ ChargePenalty(p) \/ Fail(p)
           \/ \E b \in Booking : SkipMarked(p, b)
  BY <1>5, ContinueUncounted DEF NoShowRead, ChargePenalty, Fail, SkipMarked
<1>6. CASE FindPenalty(p)
  BY <1>1, <1>6, ContinueUncounted, GotoUncounted DEF FindPenalty
<1>7. ASSUME NEW b \in Booking, MarkAbsent(p, b) PROVE Keeps
  BY <1>1, <1>7, GotoUncounted DEF MarkAbsent
<1> QED
  BY <1>2, <1>3, <1>4, <1>5, <1>6, <1>7 DEF SweepStep, NoShowStep

LEMMA InitCountedInv == Init => CountedInv
  BY IdleType DEF Init, CountedInv, FallbackEarned

LEMMA NextCountedInv == TypeOK /\ CountedInv /\ [Next]_vars => CountedInv'
<1> SUFFICES ASSUME TypeOK, CountedInv, [Next]_vars
             PROVE  CountedInv'
  OBVIOUS
<1> USE DEF row, history
<1>p. ASSUME NEW p \in Request PROVE p \in Process
  BY DEF Process
<1>1. ASSUME NEW p \in Request, NEW b \in Booking, NEW role \in {"STUDENT", "STAFF"},
             LoginRead(p, b) \/ CheckoutRead(p, b) \/ CancelRead(p, b, role)
      PROVE  CountedInv'
  <2>1. PICK label \in {"login", "cancel", "checkout"} : Await(p, label, b)
    BY <1>1 DEF LoginRead, CheckoutRead, CancelRead
  <2>2. \A q \in Process : proc'[q].pc = "verify" => proc'[q] = proc[q]
    BY <2>1, <1>p, GotoUncounted DEF Await
  <2> QED
    BY <1>1, <2>2, UncountedKeeps DEF LoginRead, CheckoutRead, CancelRead, UncountedStep
<1>2. ASSUME NEW p \in Request, NEW b \in Booking, VerifyRead(p, b)
      PROVE  CountedInv'
  <2>1. /\ proc'[p].b = b /\ proc'[p].seenTries = tries[b]
        /\ \A q \in Process \ {p} : proc'[q] = proc[q]
    BY <1>2, <1>p DEF VerifyRead, Await, Goto, TypeOK
  <2> QED
    BY <1>2, <1>p, <2>1 DEF VerifyRead, CountedInv, FallbackEarned
<1>3. ASSUME NEW p \in Request, LoginWrite(p) \/ CancelWrite(p) \/ CheckoutWrite(p)
      PROVE  CountedInv'
  <2>1. \A q \in Process : proc'[q].pc = "verify" => proc'[q] = proc[q]
    BY <1>3, <1>p, ContinueUncounted DEF LoginWrite, CancelWrite, CheckoutWrite
  <2>2. \A b \in Booking : checkin'[b] = "FAILED_BUT_ALLOWED" => checkin[b] = "FAILED_BUT_ALLOWED"
    BY <1>3 DEF LoginWrite, CancelWrite, CheckoutWrite, TypeOK
  <2> QED
    BY <1>3, <2>1, <2>2, UncountedKeeps DEF LoginWrite, CancelWrite, CheckoutWrite, UncountedStep
<1>4. ASSUME NEW p \in Request, VerifyDeny(p) \/ \E matched \in BOOLEAN : VerifyAllow(p, matched)
      PROVE  CountedInv'
  <2> DEFINE b == proc[p].b
  <2>1. /\ p \in Process /\ b \in Booking
        /\ tries[b] \in Nat /\ failures[b] \in Nat /\ proc[p].seenTries \in Nat
        /\ MaxFailed \in Nat
        /\ proc[p].seenTries <= failures[b] /\ tries[b] <= failures[b]
    BY <1>4, <1>p, LengthsAssumption DEF VerifyDeny, VerifyAllow, TypeOK, Local, CountedInv
  <2>2. \A q \in Process : proc'[q].pc = "verify" => proc'[q] = proc[q]
    BY <1>4, <1>p, ContinueUncounted DEF VerifyDeny, VerifyAllow
  <2>3. ASSUME \/ tries'[b] = 0 /\ failures'[b] = failures[b]
               \/ tries'[b] = tries[b] + 1 /\ failures'[b] = failures[b] + 1,
               \A c \in Booking \ {b} : /\ tries'[c] = tries[c] /\ failures'[c] = failures[c]
                                       /\ checkin'[c] = checkin[c],
               checkin'[b] = "FAILED_BUT_ALLOWED"
                 => Reserves[b].kind = "EXAM" /\ failures'[b] > MaxFailed
        PROVE  CountedInv'
    <3>1. \A c \in Booking : /\ tries[c] \in Nat /\ failures[c] \in Nat
                            /\ failures'[c] \in Nat /\ failures[c] <= failures'[c]
      BY <2>1, <2>3 DEF TypeOK
    <3>2. \A c \in Booking : tries'[c] <= failures'[c]
      BY <2>1, <2>3, <3>1 DEF CountedInv
    <3>3. FallbackEarned'
      BY <2>3 DEF CountedInv, FallbackEarned
    <3>4. ASSUME NEW q \in Process, proc'[q].pc = "verify"
          PROVE  proc'[q].seenTries <= failures'[proc'[q].b]
      <4>1. /\ proc'[q] = proc[q] /\ proc[q].b \in Booking /\ proc[q].seenTries \in Nat
            /\ proc[q].seenTries <= failures[proc[q].b]
        BY <2>2, <3>4 DEF TypeOK, Local, CountedInv
      <4> QED
        BY <3>1, <4>1
    <3> QED
      BY <3>2, <3>3, <3>4 DEF CountedInv
  <2>4. CASE VerifyDeny(p)
    <3>1. /\ checkin' = [checkin EXCEPT ![b] = "FAILED"]
          /\ tries' = [tries EXCEPT ![b] = @ + 1]
          /\ failures' = [failures EXCEPT ![b] = @ + 1]
      BY <2>4 DEF VerifyDeny
    <3> QED
      BY <2>1, <2>3, <3>1 DEF TypeOK
  <2>5. CASE VerifyAllow(p, TRUE)
    <3>1. /\ checkin' = [checkin EXCEPT ![b] = "PASSED"]
          /\ tries' = [tries EXCEPT ![b] = 0]
          /\ failures' = [failures EXCEPT ![b] = @]
      BY <2>5 DEF VerifyAllow
    <3> QED
      BY <2>1, <2>3, <3>1 DEF TypeOK
  <2>6. CASE VerifyAllow(p, FALSE)
    <3>1. /\ checkin' = [checkin EXCEPT ![b] = "FAILED_BUT_ALLOWED"]
          /\ tries' = [tries EXCEPT ![b] = @ + 1]
          /\ failures' = [failures EXCEPT ![b] = @ + 1]
          /\ Reserves[b].kind = "EXAM" /\ proc[p].seenTries + 1 > MaxFailed
      BY <2>6 DEF VerifyAllow, FallbackDue
    <3> QED
      BY <2>1, <2>3, <3>1 DEF TypeOK
  <2> QED
    BY <1>4, <2>4, <2>5, <2>6
<1>5. ASSUME NEW p \in Process, SweepStep(p) \/ \E b \in Booking : WalkInMark(p, b)
      PROVE  CountedInv'
  <2>2. \A q \in Process : proc'[q].pc = "verify" => proc'[q] = proc[q]
    BY <1>5, LoopUncounted
  <2>3. UNCHANGED <<tries, failures, checkin>>
    BY <1>5 DEF SweepStep, SweepRead, SweepWrite, WalkInMark
  <2> QED
    BY <2>2, <2>3, UncountedKeeps DEF UncountedStep
<1>6. ASSUME NEW p \in Process,
             \/ NoShowRead(p) \/ NoShowStep(p) \/ Fail(p)
      PROVE  CountedInv'
  <2>1. \A q \in Process : proc'[q].pc = "verify" => proc'[q] = proc[q]
    BY <1>6, LoopUncounted
  <2>2. UNCHANGED <<tries, failures, checkin>>
    BY <1>6 DEF NoShowRead, NoShowStep, MarkAbsent, SkipMarked, FindPenalty, ChargePenalty, Fail
  <2> QED
    BY <2>1, <2>2, UncountedKeeps DEF UncountedStep
<1>7. CASE Tick \/ (\E k \in Booth : BoothStatusChange(k)) \/ UNCHANGED vars
  BY <1>7, UncountedKeeps DEF Tick, BoothStatusChange, vars, UncountedStep
<1> QED
  BY <1>1, <1>2, <1>3, <1>4, <1>5, <1>6, <1>7
     DEF Next, RequestStep, Process

(***************************************************************************)
(* A student is let in without a match only to an EXAM, after more than    *)
(* MaxFailed verifications that failed, however many run at once.          *)
(***************************************************************************)
THEOREM FallbackIsEarned == Spec => []FallbackEarned
<1>1. TypeOK /\ CountedInv /\ [Next]_vars => TypeOK' /\ CountedInv'
  BY NextTypeOK, NextCountedInv
<1>2. CountedInv => FallbackEarned
  BY DEF CountedInv
<1> QED
  BY InitTypeOK, InitCountedInv, <1>1, <1>2, PTL DEF Spec

-----------------------------------------------------------------------------
(* One request at a time *)

(***************************************************************************)
(* With one request r at a time, a verification that read CONFIRM finds    *)
(* the booking not checked in when it writes: only a request checks in.    *)
(***************************************************************************)
LoneVerifier(r) ==
  proc[r].pc = "verify"
    => proc[r].seen = "CHECKED_IN" \/ status[proc[r].b] # "CHECKED_IN"

\* A step of a process other than r moves no booking to CHECKED_IN, nor r.
LEMMA LoneKeeps ==
  ASSUME NEW r \in Process, TypeOK, EntryWasGranted, LoneVerifier(r),
         checkin' = checkin,
         \A b \in Booking : status'[b] = "CHECKED_IN" => status[b] = "CHECKED_IN",
         proc'[r].pc = "verify" => proc'[r] = proc[r]
  PROVE  EntryWasGranted' /\ LoneVerifier(r)'
  BY DEF EntryWasGranted, LoneVerifier, TypeOK

LEMMA NextEntry ==
  ASSUME NEW r, Request = {r}, TypeOK, EntryWasGranted, LoneVerifier(r), [Next]_vars
  PROVE  EntryWasGranted' /\ LoneVerifier(r)'
<1> USE DEF row, history
<1>r. r \in Process
  BY DEF Process
<1>1. ASSUME NEW b \in Booking, NEW role \in {"STUDENT", "STAFF"},
             LoginRead(r, b) \/ CheckoutRead(r, b) \/ CancelRead(r, b, role)
      PROVE  EntryWasGranted' /\ LoneVerifier(r)'
  <2>1. PICK label \in {"login", "cancel", "checkout"} : Await(r, label, b)
    BY <1>1 DEF LoginRead, CheckoutRead, CancelRead
  <2>2. proc'[r].pc = "verify" => proc'[r] = proc[r]
    BY <2>1, <1>r, GotoUncounted DEF Await
  <2> QED
    BY <1>1, <1>r, <2>2, LoneKeeps DEF LoginRead, CheckoutRead, CancelRead
<1>2. ASSUME NEW b \in Booking, VerifyRead(r, b)
      PROVE  EntryWasGranted' /\ LoneVerifier(r)'
  <2>1. proc'[r].b = b /\ proc'[r].seen = status[b]
    BY <1>2, <1>r DEF VerifyRead, Await, Goto, TypeOK
  <2> QED
    BY <1>2, <2>1 DEF VerifyRead, LoneVerifier, EntryWasGranted, Live
<1>3. CASE LoginWrite(r)
  <2>1. /\ status' = [status EXCEPT ![proc[r].b] = "CONFIRM"]
        /\ checkin' = [checkin EXCEPT ![proc[r].b] = "PENDING"]
        /\ proc'[r].pc # "verify"
    BY <1>3, <1>r, ContinueUncounted DEF LoginWrite
  <2> QED
    BY <2>1 DEF EntryWasGranted, LoneVerifier, TypeOK
<1>4. CASE CancelWrite(r) \/ CheckoutWrite(r)
  <2>1. /\ checkin' = checkin
        /\ \A b \in Booking : status'[b] = "CHECKED_IN" => status[b] = "CHECKED_IN"
    BY <1>4 DEF CancelWrite, CheckoutWrite, TypeOK
  <2>2. proc'[r].pc # "verify"
    BY <1>4, <1>r, ContinueUncounted DEF CancelWrite, CheckoutWrite
  <2> QED
    BY <1>r, <2>1, <2>2, LoneKeeps
<1>5. CASE VerifyDeny(r)
  <2>1. /\ proc[r].pc = "verify" /\ proc[r].b \in Booking /\ proc'[r].pc # "verify"
        /\ checkin' = [checkin EXCEPT ![proc[r].b] = "FAILED"]
        /\ status' = [status EXCEPT ![proc[r].b] = StatusAfterVerify(proc[r].b, proc[r].seen, FALSE)]
    BY <1>5, <1>r, ContinueUncounted DEF VerifyDeny, TypeOK
  <2>2. status'[proc[r].b] # "CHECKED_IN"
    BY <2>1 DEF StatusAfterVerify, LoneVerifier, TypeOK
  <2> QED
    BY <2>1, <2>2 DEF EntryWasGranted, LoneVerifier, TypeOK
<1>6. ASSUME NEW matched \in BOOLEAN, VerifyAllow(r, matched)
      PROVE  EntryWasGranted' /\ LoneVerifier(r)'
  <2>1. /\ proc[r].b \in Booking /\ proc'[r].pc # "verify"
        /\ checkin'[proc[r].b] \in {"PASSED", "FAILED_BUT_ALLOWED"}
        /\ \A b \in Booking \ {proc[r].b} : status'[b] = status[b] /\ checkin'[b] = checkin[b]
    BY <1>6, <1>r, ContinueUncounted DEF VerifyAllow, TypeOK
  <2> QED
    BY <2>1 DEF EntryWasGranted, LoneVerifier
<1>7. ASSUME NEW p \in Process, SweepStep(p) \/ \E b \in Booking : WalkInMark(p, b)
      PROVE  EntryWasGranted' /\ LoneVerifier(r)'
  <2>2. \A q \in Process : proc'[q].pc = "verify" => proc'[q] = proc[q]
    BY <1>7, LoopUncounted
  <2>3. /\ checkin' = checkin
        /\ \A b \in Booking : status'[b] = "CHECKED_IN" => status[b] = "CHECKED_IN"
    BY <1>7 DEF SweepStep, SweepRead, SweepWrite, WalkInMark, TypeOK
  <2> QED
    BY <1>r, <2>2, <2>3, LoneKeeps
<1>8. ASSUME NEW p \in Process, NoShowRead(p) \/ NoShowStep(p) \/ Fail(p)
      PROVE  EntryWasGranted' /\ LoneVerifier(r)'
  <2>1. \A q \in Process : proc'[q].pc = "verify" => proc'[q] = proc[q]
    BY <1>8, LoopUncounted
  <2>2. /\ checkin' = checkin
        /\ \A b \in Booking : status'[b] = "CHECKED_IN" => status[b] = "CHECKED_IN"
    BY <1>8 DEF NoShowRead, NoShowStep, MarkAbsent, SkipMarked, FindPenalty, ChargePenalty,
                Fail, TypeOK
  <2> QED
    BY <1>r, <2>1, <2>2, LoneKeeps
<1>9. CASE Tick \/ (\E k \in Booth : BoothStatusChange(k)) \/ UNCHANGED vars
  BY <1>9 DEF Tick, BoothStatusChange, vars, EntryWasGranted, LoneVerifier
<1> QED
  BY <1>1, <1>2, <1>3, <1>4, <1>5, <1>6, <1>7, <1>8, <1>9
     DEF Next, RequestStep, Process

(***************************************************************************)
(* While requests do not overlap, nobody is CHECKED_IN whose last          *)
(* verification failed or who logged in anew, whatever the jobs do.        *)
(***************************************************************************)
THEOREM EntryIsGranted ==
  ASSUME NEW r, Request = {r}
  PROVE  Spec => []EntryWasGranted
<1>1. Init => EntryWasGranted /\ LoneVerifier(r)
  BY IdleType DEF Init, EntryWasGranted, LoneVerifier, Process
<1>2. TypeOK /\ EntryWasGranted /\ LoneVerifier(r) /\ [Next]_vars
        => TypeOK' /\ EntryWasGranted' /\ LoneVerifier(r)'
  BY NextTypeOK, NextEntry
<1> QED
  BY InitTypeOK, <1>1, <1>2, PTL DEF Spec

=============================================================================
