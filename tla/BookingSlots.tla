----------------------------- MODULE BookingSlots -----------------------------
(***************************************************************************)
(* Who holds which booth when: making a booking, walking in to a booth     *)
(* that is free, and moving the bookings of a booth that breaks down       *)
(* (src/bookings create and createWalkInPracticeForBoothLogin, src/booths  *)
(* transferBookingsFromIncidentBooth).                                     *)
(*                                                                         *)
(* create and the walk-in are checks followed by an insert, each statement *)
(* atomic by itself; no constraint of the table repeats what they checked. *)
(* The transfer is one transaction at READ COMMITTED: every statement sees *)
(* what others have committed, the rows it updated are locked, and nobody  *)
(* sees its updates before the commit.  The other handlers of a booking    *)
(* (BookingLifecycle) matter here only for the status they write, without  *)
(* a condition on the row, some time after they read it.                   *)
(***************************************************************************)
EXTENDS BookingRules, FiniteSets, Sequences

CONSTANTS
  Process,       \* request handlers running at the same time
  Requested,     \* what students ask for, within opening hours and durations
  WalkIns,       \* <<who, booth>>: a student who comes to a booth unannounced
  Failing,       \* booths that leave and enter service
  Gap,           \* between two sessions of one student
  ForceBefore,   \* a walk-in leaves this long before the next EXAM
  WalkInLength,  \* the longest walk-in
  Day,           \* the length of a day
  MinDays, MaxDays,  \* how many days ahead a booking may be made
  Horizon,       \* bound: the last instant
  MaxRows        \* bound: bookings made

\* date is a field of the request of its own; see WellDated.
Request == [who : Student, booth : Booth, kind : Kind, start : Nat, end : Nat, date : Nat]

ASSUME RequestedAssumption ==
  Requested \subseteq Request /\ \A q \in Requested : q.start < q.end
ASSUME SlotLengthsAssumption ==
  /\ Gap \in Nat /\ ForceBefore \in Nat /\ WalkInLength \in Nat \ {0} /\ Day \in Nat \ {0}
  /\ MinDays \in Nat /\ MaxDays \in Nat /\ Horizon \in Nat /\ MaxRows \in Nat
ASSUME InputsAssumption == WalkIns \subseteq Student \X Booth /\ Failing \subseteq Booth
ASSUME FiniteAssumption == IsFiniteSet(Process) /\ IsFiniteSet(Booth)

VARIABLES
  now,     \* the clock
  active,  \* active[k]: booth k is ACTIVE
  rows,    \* the bookings in the order they were made
  proc     \* where each process is and what it has read

vars == <<now, active, rows, proc>>

\* walkIn: the row of a walk-in, which has bufferMinutes 0.
Row == [who : Student, booth : Booth, kind : Kind, start : Nat, end : Nat, date : Nat,
        status : BookingStatus, walkIn : BOOLEAN]

Idle == [pc |-> "idle"]

\* create between two of its checks.
Creating == [pc : {"booth", "slot", "count", "insert"}, q : Requested]
         \cup [pc : {"capacity"}, q : Requested, seen : Nat]
\* About to write the status it decided on when it read the row.
Writing == [pc : {"write"}, row : Nat, to : BookingStatus]
\* A walk-in: fresh unless the student is already checked in to this booth.
WalkingIn == [pc : {"upcoming", "standing", "present"}, who : Student, booth : Booth, at : Nat]
          \cup [pc : {"next"}, who : Student, booth : Booth, at : Nat,
                fresh : BOOLEAN, marked : BOOLEAN]
          \cup [pc : {"mark"}, who : Student, booth : Booth, at : Nat,
                fresh : BOOLEAN, row : Nat]
          \cup [pc : {"enter"}, who : Student, booth : Booth, at : Nat, end : Nat]
\* A transfer: the candidates still to do, those moved and those dropped.
Transferring == [pc : {"transfer"}, from : Booth, to : Booth, at : Nat,
                 todo : SUBSET Nat, moved : SUBSET Nat, dropped : SUBSET Nat]

Local == {Idle} \cup Creating \cup Writing \cup WalkingIn \cup Transferring

Ids == DOMAIN rows

TypeOK ==
  /\ now \in 0..Horizon
  /\ active \in [Booth -> BOOLEAN]
  /\ rows \in Seq(Row)
  /\ proc \in [Process -> Local]
  /\ \A p \in Process :
       /\ proc[p].pc \in {"write", "mark"} => proc[p].row \in Ids
       /\ proc[p].pc = "transfer"
            => proc[p].todo \cup proc[p].moved \cup proc[p].dropped \subseteq Ids

Init ==
  /\ now = 0
  /\ active = [k \in Booth |-> TRUE]
  /\ rows = << >>
  /\ proc = [p \in Process |-> Idle]

Goto(p, next) == proc' = [proc EXCEPT ![p] = next]
End(p) == Goto(p, Idle)

DayOf(t) == t \div Day

IsLive(i) == rows[i].status \in Live
Overlap(s, r) == s.start < r.end /\ r.start < s.end

-----------------------------------------------------------------------------
(* BookingsService.create *)

\* Within the days a booking may be made ahead.
DateAllowed(q) == DayOf(now) + MinDays <= q.date /\ q.date <= DayOf(now) + MaxDays

\* Mutant of TooClose: the gap is required before the next session only.
TooCloseAfter(q, r) == r.start < q.end + Gap /\ q.start < r.end

\* Less than Gap between the request and a session of the same student.
TooClose(q, r) == r.start < q.end + Gap /\ q.start - Gap < r.end

CreateGap(p, q) ==
  /\ proc[p].pc = "idle"
  /\ DateAllowed(q)
  /\ \A i \in Ids : rows[i].who = q.who /\ rows[i].date = q.date /\ IsLive(i)
                      => ~TooClose(q, rows[i])
  /\ Goto(p, [pc |-> "booth", q |-> q])
  /\ UNCHANGED <<now, active, rows>>

CreateBooth(p) ==
  /\ proc[p].pc = "booth"
  /\ active[proc[p].q.booth]
  /\ Goto(p, [pc |-> "slot", q |-> proc[p].q])
  /\ UNCHANGED <<now, active, rows>>

\* The live bookings of the day of q that overlap it, at any booth.
Rivals(q) == {i \in Ids : rows[i].date = q.date /\ IsLive(i) /\ Overlap(q, rows[i])}

\* Mutant of CreateSlot: only bookings nobody has checked in to take the slot.
CreateSlotConfirmed(p) ==
  LET q == proc[p].q IN
  /\ proc[p].pc = "slot"
  /\ \A i \in Rivals(q) : rows[i].booth = q.booth => rows[i].status = "CHECKED_IN"
  /\ Goto(p, [pc |-> "count", q |-> q])
  /\ UNCHANGED <<now, active, rows>>

CreateSlot(p) ==
  LET q == proc[p].q IN
  /\ proc[p].pc = "slot"
  /\ \A i \in Rivals(q) : rows[i].booth # q.booth
  /\ Goto(p, [pc |-> "count", q |-> q])
  /\ UNCHANGED <<now, active, rows>>

\* getActiveBoothCount
CreateCount(p) ==
  /\ proc[p].pc = "count"
  /\ Goto(p, [pc |-> "capacity", q |-> proc[p].q,
              seen |-> Cardinality({k \in Booth : active[k]})])
  /\ UNCHANGED <<now, active, rows>>

CreateCapacity(p) ==
  /\ proc[p].pc = "capacity"
  /\ Cardinality(Rivals(proc[p].q)) < proc[p].seen
  /\ Goto(p, [pc |-> "insert", q |-> proc[p].q])
  /\ UNCHANGED <<now, active, rows>>

\* Refused because all booths are booked; the other refusals are Fail(p).
CreateFull(p) ==
  /\ proc[p].pc = "capacity"
  /\ Cardinality(Rivals(proc[p].q)) >= proc[p].seen
  /\ End(p)
  /\ UNCHANGED <<now, active, rows>>

\* Mutant of RowOf: the status of another enumeration.
RowPending(q) ==
  [who |-> q.who, booth |-> q.booth, kind |-> q.kind, start |-> q.start, end |-> q.end,
   date |-> q.date, status |-> "PENDING", walkIn |-> FALSE]

\* The row a request becomes.
RowOf(q) ==
  [who |-> q.who, booth |-> q.booth, kind |-> q.kind, start |-> q.start, end |-> q.end,
   date |-> q.date, status |-> "CONFIRM", walkIn |-> FALSE]

CreateInsert(p) ==
  /\ proc[p].pc = "insert"
  /\ Len(rows) < MaxRows
  /\ rows' = Append(rows, RowOf(proc[p].q))
  /\ End(p)
  /\ UNCHANGED <<now, active>>

-----------------------------------------------------------------------------
(* Status writes *)

\* Row i was updated by a transaction that has not committed.
Locked(i) ==
  \E p \in Process : proc[p].pc = "transfer" /\ i \in proc[p].moved \cup proc[p].dropped

\* What a handler that reads row i now may write later: a login or a failed
\* repetition of the check-in, a check-in, a cancellation, a checkout.
Intended(i) ==
  LET admitted == active[rows[i].booth] /\ InCheckInWindow(rows[i], now) IN
  {to \in BookingStatus :
    \/ to = "CONFIRM" /\ IsLive(i) /\ admitted
    \/ to = "CHECKED_IN" /\ rows[i].status = "CONFIRM" /\ admitted
    \/ to = "CANCEL" /\ rows[i].status = "CONFIRM"
    \/ to = "COMPLETED" /\ rows[i].status = "CHECKED_IN"}

StatusRead(p, i, to) ==
  /\ proc[p].pc = "idle"
  /\ to \in Intended(i)
  /\ Goto(p, [pc |-> "write", row |-> i, to |-> to])
  /\ UNCHANGED <<now, active, rows>>

StatusWrite(p) ==
  LET i == proc[p].row IN
  /\ proc[p].pc = "write"
  /\ ~Locked(i)
  /\ rows' = [rows EXCEPT ![i] = [@ EXCEPT !.status = proc[p].to]]
  /\ End(p)
  /\ UNCHANGED <<now, active>>

\* The job checks out or marks a booking whose time is over.
Settle(i) ==
  /\ ~Locked(i)
  /\ \/ /\ rows[i].status = "CHECKED_IN" /\ Expired(rows[i], now)
        /\ rows' = [rows EXCEPT ![i] = [@ EXCEPT !.status = "COMPLETED"]]
     \/ /\ rows[i].status = "CONFIRM" /\ NoShowDue(rows[i], now)
        /\ rows' = [rows EXCEPT ![i] = [@ EXCEPT !.status = "ABSENT"]]
  /\ UNCHANGED <<now, active, proc>>

-----------------------------------------------------------------------------
(* boothLogin without a booking: createWalkInPracticeForBoothLogin *)

\* getPendingCheckInByBooth finds no booking in its window at any booth ...
WalkInWindow(p, who, k) ==
  /\ proc[p].pc = "idle"
  /\ active[k]
  /\ \A i \in Ids : rows[i].who = who /\ IsLive(i) => ~InCheckInWindow(rows[i], now)
  /\ Goto(p, [pc |-> "upcoming", who |-> who, booth |-> k, at |-> now])
  /\ UNCHANGED <<now, active, rows>>

\* ... and none to come at this booth.
WalkInUpcoming(p) ==
  LET w == proc[p] IN
  /\ w.pc = "upcoming"
  /\ ~\E i \in Ids : /\ rows[i].who = w.who /\ rows[i].booth = w.booth
                     /\ rows[i].status = "CONFIRM"
                     /\ w.at - Early <= rows[i].start /\ w.at <= rows[i].end
  /\ Goto(p, [pc |-> "standing", who |-> w.who, booth |-> w.booth, at |-> w.at])
  /\ UNCHANGED <<now, active, rows>>

\* The booth is ACTIVE; the walk-in counts from now.
WalkInBooth(p) ==
  LET w == proc[p] IN
  /\ w.pc = "standing"
  /\ active[w.booth]
  /\ Goto(p, [pc |-> "present", who |-> w.who, booth |-> w.booth, at |-> now])
  /\ UNCHANGED <<now, active, rows>>

\* The bookings the student is checked in to, wherever.
Present(who, at) ==
  {i \in Ids : rows[i].who = who /\ rows[i].status = "CHECKED_IN" /\ at <= rows[i].end}

\* Checked in at another booth is refused (one of several may be looked at).
WalkInPresent(p) ==
  LET w == proc[p] IN
  /\ w.pc = "present"
  /\ \E fresh \in BOOLEAN :
       /\ IF fresh THEN Present(w.who, w.at) = {}
                   ELSE \E i \in Present(w.who, w.at) : rows[i].booth = w.booth
       /\ Goto(p, [pc |-> "next", who |-> w.who, booth |-> w.booth, at |-> w.at,
                   fresh |-> fresh, marked |-> FALSE])
  /\ UNCHANGED <<now, active, rows>>

\* The live EXAMs of booth k not over at the instant at.
ExamsOf(k, at) ==
  {i \in Ids : rows[i].booth = k /\ rows[i].kind = "EXAM" /\ IsLive(i) /\ at <= rows[i].end}

\* Mutant of IsNextExam: the query forgets its order.
IsAnyExam(i, k, at) == i \in ExamsOf(k, at)

\* findNextExamBookingForBooth
IsNextExam(i, k, at) ==
  i \in ExamsOf(k, at) /\ \A j \in ExamsOf(k, at) : rows[i].start <= rows[j].start

\* The next EXAM was missed and has not been marked.
WalkInFindMissed(p, i) ==
  LET w == proc[p] IN
  /\ w.pc = "next" /\ ~w.marked
  /\ IsNextExam(i, w.booth, w.at)
  /\ rows[i].status = "CONFIRM" /\ rows[i].start + Grace <= w.at
  /\ Goto(p, [pc |-> "mark", who |-> w.who, booth |-> w.booth, at |-> w.at,
              fresh |-> w.fresh, row |-> i])
  /\ UNCHANGED <<now, active, rows>>

\* It becomes ABSENT if it is still CONFIRM, and the next EXAM is read again.
WalkInMark(p) ==
  LET w == proc[p] IN
  /\ w.pc = "mark"
  /\ ~Locked(w.row)
  /\ rows' = [rows EXCEPT ![w.row] =
       [@ EXCEPT !.status = IF rows[w.row].status = "CONFIRM" THEN "ABSENT"
                            ELSE rows[w.row].status]]
  /\ Goto(p, [pc |-> "next", who |-> w.who, booth |-> w.booth, at |-> w.at,
              fresh |-> w.fresh, marked |-> TRUE])
  /\ UNCHANGED <<now, active>>

\* The walk-in may last until end; a student who is checked in stays so.
Enter(p, end) ==
  LET w == proc[p] IN
  /\ w.pc = "next"
  /\ IF w.fresh
       THEN Goto(p, [pc |-> "enter", who |-> w.who, booth |-> w.booth, at |-> w.at, end |-> end])
       ELSE End(p)
  /\ UNCHANGED <<now, active, rows>>

\* The booth is refused while it is in use for its next EXAM and kept for it from
\* ForceBefore before to Grace after its start: a walk-in begins without an EXAM to
\* come, ...
WalkInFree(p) ==
  /\ Enter(p, proc[p].at + WalkInLength)
  /\ ExamsOf(proc[p].booth, proc[p].at) = {}

\* ... before the booth is kept for EXAM i, ...
WalkInBefore(p, i) ==
  /\ Enter(p, rows[i].start - ForceBefore)
  /\ IsNextExam(i, proc[p].booth, proc[p].at)
  /\ rows[i].status = "CONFIRM"
  /\ proc[p].at < rows[i].start - ForceBefore

\* ... or after, when another EXAM has just been marked.
WalkInAfter(p, i) ==
  /\ Enter(p, proc[p].at + WalkInLength)
  /\ proc[p].marked
  /\ IsNextExam(i, proc[p].booth, proc[p].at)
  /\ rows[i].status = "CONFIRM"
  /\ rows[i].start + Grace < proc[p].at

WalkInInsert(p) ==
  LET w == proc[p] IN
  /\ w.pc = "enter"
  /\ Len(rows) < MaxRows
  /\ rows' = Append(rows,
       [who |-> w.who, booth |-> w.booth, kind |-> "PRACTICE", start |-> w.at, end |-> w.end,
        date |-> DayOf(w.at), status |-> "CHECKED_IN", walkIn |-> TRUE])
  /\ End(p)
  /\ UNCHANGED <<now, active>>

-----------------------------------------------------------------------------
(* transferBookingsFromIncidentBooth *)

\* A transfer from one booth to another, begun at the instant at.
Transfer(from, to, at, todo, moved, dropped) ==
  [pc |-> "transfer", from |-> from, to |-> to, at |-> at,
   todo |-> todo, moved |-> moved, dropped |-> dropped]

\* What transfer t goes on with once it has looked at candidate i.
Looked(t, i, moved, dropped) ==
  Transfer(t.from, t.to, t.at, t.todo \ {i}, t.moved \cup moved, t.dropped \cup dropped)

\* The candidates: all live bookings of the booth, or those staff selected.
TransferRead(p, from, to, chosen) ==
  /\ proc[p].pc = "idle"
  /\ from # to /\ active[to]
  /\ \A i \in chosen : rows[i].booth = from /\ IsLive(i) /\ now <= rows[i].end
  /\ Goto(p, Transfer(from, to, now, chosen, {}, {}))
  /\ UNCHANGED <<now, active, rows>>

\* i is the first of its candidates that transfer p has to look at.
IsFirst(p, i) ==
  /\ i \in proc[p].todo
  /\ \A j \in proc[p].todo : \/ rows[i].start < rows[j].start
                             \/ rows[i].start = rows[j].start /\ i <= j

\* Mutant of Transferable: the update forgets its condition on the row.
TransferableAlways(p, i) == i \in Ids

\* The condition of the updates: the booking has not changed meanwhile.
Transferable(p, i) ==
  rows[i].booth = proc[p].from /\ IsLive(i) /\ proc[p].at <= rows[i].end

\* What transfer p sees of booth proc[p].to while i would be there.
TransferConflict(p, i) ==
  \/ \E j \in Ids : rows[j].booth = proc[p].to /\ IsLive(j) /\ Overlap(rows[i], rows[j])
  \/ \E j \in proc[p].moved : Overlap(rows[i], rows[j])

TransferMove(p, i) ==
  /\ proc[p].pc = "transfer"
  /\ IsFirst(p, i) /\ ~Locked(i)
  /\ Transferable(p, i) /\ ~TransferConflict(p, i)
  /\ Goto(p, Looked(proc[p], i, {i}, {}))
  /\ UNCHANGED <<now, active, rows>>

TransferDrop(p, i) ==
  /\ proc[p].pc = "transfer"
  /\ IsFirst(p, i) /\ ~Locked(i)
  /\ Transferable(p, i) /\ TransferConflict(p, i)
  /\ Goto(p, Looked(proc[p], i, {}, {i}))
  /\ UNCHANGED <<now, active, rows>>

TransferSkip(p, i) ==
  /\ proc[p].pc = "transfer"
  /\ IsFirst(p, i) /\ ~Locked(i)
  /\ ~Transferable(p, i)
  /\ Goto(p, Looked(proc[p], i, {}, {}))
  /\ UNCHANGED <<now, active, rows>>

\* The source booth leaves service with the commit.
TransferCommit(p) ==
  LET t == proc[p] IN
  /\ t.pc = "transfer" /\ t.todo = {}
  /\ rows' = [i \in Ids |->
       IF i \in t.moved THEN [rows[i] EXCEPT !.booth = t.to]
       ELSE IF i \in t.dropped THEN [rows[i] EXCEPT !.status = "CANCEL"]
       ELSE rows[i]]
  /\ active' = [active EXCEPT ![t.from] = FALSE]
  /\ End(p)
  /\ UNCHANGED now

-----------------------------------------------------------------------------
(* The environment *)

Tick == now < Horizon /\ now' = now + 1 /\ UNCHANGED <<active, rows, proc>>

BoothStatusChange(k) ==
  /\ active' = [active EXCEPT ![k] = ~@]
  /\ UNCHANGED <<now, rows, proc>>

\* A refusal, a call that is rejected (a transaction is rolled back), a restart.
Fail(p) ==
  /\ proc[p].pc # "idle"
  /\ End(p)
  /\ UNCHANGED <<now, active, rows>>

CreateStep(p) ==
  \/ \E q \in Requested : CreateGap(p, q)
  \/ CreateBooth(p) \/ CreateSlot(p) \/ CreateCount(p)
  \/ CreateCapacity(p) \/ CreateFull(p) \/ CreateInsert(p)

StatusStep(p) ==
  \/ \E i \in Ids, to \in BookingStatus : StatusRead(p, i, to)
  \/ StatusWrite(p)

WalkInStep(p) ==
  \/ \E v \in WalkIns : WalkInWindow(p, v[1], v[2])
  \/ WalkInUpcoming(p) \/ WalkInBooth(p) \/ WalkInPresent(p)
  \/ \E i \in Ids : WalkInFindMissed(p, i) \/ WalkInBefore(p, i) \/ WalkInAfter(p, i)
  \/ WalkInMark(p) \/ WalkInFree(p) \/ WalkInInsert(p)

TransferStep(p) ==
  \/ \E from \in Failing, to \in Booth, chosen \in SUBSET Ids : TransferRead(p, from, to, chosen)
  \/ \E i \in Ids : TransferMove(p, i) \/ TransferDrop(p, i) \/ TransferSkip(p, i)
  \/ TransferCommit(p)

Next ==
  \/ \E p \in Process :
       CreateStep(p) \/ StatusStep(p) \/ WalkInStep(p) \/ TransferStep(p) \/ Fail(p)
  \/ \E i \in Ids : Settle(i)
  \/ \E k \in Failing : BoothStatusChange(k)
  \/ Tick

Spec == Init /\ [][Next]_vars

-----------------------------------------------------------------------------
(* Properties *)

\* The date of the request is the day of its times, the gap after it included.
WellDated(q) == q.date * Day <= q.start /\ q.end + Gap <= (q.date + 1) * Day

IsBooked(i) == IsLive(i) /\ ~rows[i].walkIn

\* The bookings that hold booth k at the instant t.
BookedAt(k, t) ==
  {i \in Ids : IsBooked(i) /\ rows[i].booth = k /\ rows[i].start <= t /\ t < rows[i].end}

\* The bookings that keep their student from another session at the instant t.
HeldAt(who, t) ==
  {i \in Ids : IsBooked(i) /\ rows[i].who = who /\ rows[i].start <= t /\ t < rows[i].end + Gap}

(***************************************************************************)
(* No lock and no constraint protects a slot between the check of create   *)
(* or the transfer and its write, and a stale login brings a cancelled     *)
(* booking back.  Nevertheless a booth is never booked more often at any   *)
(* instant than there are handlers at work, however many bookings follow   *)
(* one another: one handler at a time means no double booking.  (Every     *)
(* overlap shows at the start of one of its bookings.)                     *)
(***************************************************************************)
BoothsAtMost ==
  \A i \in Ids : Cardinality(BookedAt(rows[i].booth, rows[i].start)) <= Cardinality(Process)

(***************************************************************************)
(* The same for the sessions of a student and the gap between them.        *)
(***************************************************************************)
StudentsAtMost ==
  \A i \in Ids : Cardinality(HeldAt(rows[i].who, rows[i].start)) <= Cardinality(Process)

(***************************************************************************)
(* A transfer read its candidates long before it commits.  It moves a      *)
(* booking all the same only while it is live and not over.                *)
(***************************************************************************)
OnlyLiveBookingsMove ==
  [][\A i \in Ids : rows'[i].booth # rows[i].booth
                      => IsLive(i) /\ rows'[i].status = rows[i].status]_vars

\* A walk-in that ends before midnight, UTC.
EndsThatDay(i) == rows[i].end <= (rows[i].date + 1) * Day

(***************************************************************************)
(* The booth is kept for an EXAM: with one handler at a time no walk-in    *)
(* overlaps an EXAM of its booth, whichever of the two came first and      *)
(* whatever was moved, missed or cancelled in between.  (A walk-in that    *)
(* runs past midnight keeps the date it began on, and create does not find *)
(* it under the date of its request.)                                      *)
(***************************************************************************)
ExamsUndisturbed ==
  ~\E i, j \in Ids :
     /\ rows[i].walkIn /\ IsLive(i) /\ EndsThatDay(i)
     /\ rows[j].kind = "EXAM" /\ IsLive(j)
     /\ rows[i].booth = rows[j].booth
     /\ Overlap(rows[i], rows[j])

(***************************************************************************)
(* create: the booth is not booked twice at a time.  Two overlapping       *)
(* requests both find it free.                                             *)
(***************************************************************************)
BoothsAtMostOnce ==
  \A i, j \in Ids :
    i # j /\ IsBooked(i) /\ IsBooked(j) /\ rows[i].booth = rows[j].booth
      => ~Overlap(rows[i], rows[j])
=============================================================================
