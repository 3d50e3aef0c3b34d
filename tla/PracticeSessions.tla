--------------------------- MODULE PracticeSessions ---------------------------
(***************************************************************************)
(* Practice sessions of one student who holds a booth (src/practice), with *)
(* the points for attendance (src/points) and the job that ends sessions   *)
(* whose time is up (src/tasks).                                           *)
(*                                                                         *)
(* completeSession reads the session with its answers, grades them one by  *)
(* one, each a call of the AI grader or of the judge and a write, and then *)
(* writes the result, without a condition; the points come after that.     *)
(* Saving an answer, extending and aborting each read the session first    *)
(* and write later.                                                        *)
(*                                                                         *)
(* Time is counted in coarse steps since a session was started.  An answer *)
(* is right or wrong; what it says, the filters by subject and topic, and  *)
(* the messages to screens are left out.                                   *)
(***************************************************************************)
EXTENDS Integers, FiniteSets

CONSTANTS
  Request, Cron,       \* requests handled at the same time; the job
  Question, Problem,   \* what is published and fits the student's wishes
  Booking,             \* bookings for practice the student has checked in to
  None,                \* null
  MaxSessions,         \* bound: sessions
  MaxItems,            \* bound: items asked for
  Longest,             \* the longest duration of a session, here 720 minutes
  Grace,               \* time allowed after the end, here a minute
  MaxFailures          \* bound: calls that fail

\* What the constants are; the instances assume it.  Null is no number and no answer.
ConstantsAssumption ==
  /\ {MaxSessions, MaxItems, MaxFailures, Grace} \subseteq Nat /\ Longest \in Nat \ {0}
  /\ Cron \notin Request /\ IsFiniteSet(Request)
  /\ Question \cap Problem = {} /\ IsFiniteSet(Question \cup Problem)
  /\ None \notin Booking /\ None \notin 0..5 /\ None \notin {"right", "wrong"}

VARIABLES
  sessions,  \* the PracticeSession rows with their items and answers
  points,    \* points for attendance, by booking
  proc,      \* where each process is and what it has read
  failures,  \* calls that have failed
  together   \* history: sessions that two completions have graded together

vars == <<sessions, points, proc, failures, together>>

Process == Request \cup {Cron}
Session == 1..MaxSessions
Item == Question \cup Problem

\* What createSession lets an item count, point by point.
Worth(i) == IF i \in Question THEN 1 ELSE 5
Points(items) == {pt \in items \X (1..5) : pt[2] <= Worth(pt[1])}
MaxScore(items) == Cardinality(Points(items))

\* The points that items have been given by their marks.
Marked(items, mark) == {pt \in items \X (1..5) : mark[pt[1]] # None /\ pt[2] <= mark[pt[1]]}
MarkSum(items, mark) == Cardinality(Marked(items, mark))

NoSession ==
  [status |-> "none", booking |-> None, duration |-> 0, age |-> 0, items |-> {},
   answer |-> [i \in Item |-> None], mark |-> [i \in Item |-> None], score |-> None]

Row ==
  [status : {"none", "IN_PROGRESS", "COMPLETED", "ABANDONED"},
   booking : Booking \cup {None},
   duration : 0..Longest, age : 0..(Longest + Grace + 1),
   items : SUBSET Item,
   answer : [Item -> {"right", "wrong", None}],
   mark : [Item -> 0..5 \cup {None}],
   score : 0..MaxScore(Item) \cup {None}]

\* rest: the sessions the job has still to look at.
Idle == [pc |-> "idle"]
Local ==
  {Idle}
  \cup [pc : {"answer"}, s : Session, item : Item, value : {"right", "wrong"}]
  \cup [pc : {"grade"}, s : Session, todo : SUBSET Item, seen : [Item -> {"right", "wrong", None}],
        total : Nat, rest : SUBSET Session]
  \cup [pc : {"attendance", "award"}, s : Session, total : Nat, rest : SUBSET Session]
  \cup [pc : {"extend"}, s : Session, duration : 1..Longest]
  \cup [pc : {"abort"}, s : Session]
  \cup [pc : {"batch"}, rest : SUBSET Session]

TypeOK ==
  /\ sessions \in [Session -> Row]
  /\ points \in [Booking -> Nat]
  /\ proc \in [Process -> Local]
  /\ failures \in 0..MaxFailures
  /\ together \subseteq Session

Init ==
  /\ sessions = [s \in Session |-> NoSession]
  /\ points = [b \in Booking |-> 0]
  /\ proc = [p \in Process |-> Idle]
  /\ failures = 0
  /\ together = {}

Goto(p, next) == proc' = [proc EXCEPT ![p] = next]

\* The job turns to its next session; a request is over.
Finish(p, rest) == Goto(p, IF p = Cron THEN [pc |-> "batch", rest |-> rest] ELSE Idle)

Running(s) == sessions[s].status = "IN_PROGRESS"
Late(s) == sessions[s].age > sessions[s].duration + Grace

-----------------------------------------------------------------------------
(* createSession *)

Least(m, n) == IF m <= n THEN m ELSE n

\* Four questions in five items when there are to be problems too.
QuestionCount(total, problems) ==
  Least(Cardinality(Question), IF problems THEN (4 * total + 4) \div 5 ELSE total)

Picks(total, questions, problems) ==
  {items \in SUBSET ((IF questions THEN Question ELSE {}) \cup (IF problems THEN Problem ELSE {})) :
     LET q == IF questions THEN QuestionCount(total, problems) ELSE 0 IN
     /\ Cardinality(items \cap Question) = q
     /\ Cardinality(items \cap Problem) =
          IF problems THEN Least(Cardinality(Problem), total - q) ELSE 0}

CreateSession(p, s, booking, duration, total, questions, problems) ==
  /\ proc[p].pc = "idle"
  /\ sessions[s].status = "none" /\ \A t \in Session : t < s => sessions[t].status # "none"
  /\ \E items \in Picks(total, questions, problems) \ {{}} :
       sessions' = [sessions EXCEPT ![s] = [NoSession EXCEPT !.status = "IN_PROGRESS",
                      !.booking = booking, !.duration = duration, !.items = items]]
  /\ UNCHANGED <<points, proc, failures, together>>

-----------------------------------------------------------------------------
(* completeSession *)

Grading(p, s) == proc[p].pc = "grade" /\ proc[p].s = s

\* The session as it is read: what has been answered is to be graded.
CompleteRead(p, s, rest) ==
  LET answered == {i \in sessions[s].items : sessions[s].answer[i] # None} IN
  /\ Goto(p, [pc |-> "grade", s |-> s, todo |-> answered, seen |-> sessions[s].answer,
              total |-> 0, rest |-> rest])
  /\ together' = IF \E q \in Process \ {p} : Grading(q, s) THEN together \cup {s} ELSE together
  /\ UNCHANGED <<sessions, points, failures>>

Complete(p, s) ==
  /\ proc[p].pc = "idle" /\ p # Cron
  /\ Running(s)
  /\ CompleteRead(p, s, {})

\* Mutant of AddMark: an item that has a mark already is not counted again.
AddNewMark(s, i, total, mark) == IF sessions[s].mark[i] = None THEN total + mark ELSE total

AddMark(s, i, total, mark) == total + mark

\* A right answer may also get nothing: the judge or the AI grader is down, or
\* sees it otherwise.
Grade(p, i) ==
  LET me == proc[p] IN
  /\ me.pc = "grade" /\ i \in me.todo
  /\ \E mark \in IF me.seen[i] = "right" THEN {0, Worth(i)} ELSE {0} :
       /\ sessions' = [sessions EXCEPT ![me.s].mark[i] = mark]
       /\ Goto(p, [me EXCEPT !.todo = me.todo \ {i}, !.total = AddMark(me.s, i, me.total, mark)])
  /\ UNCHANGED <<points, failures, together>>

CompleteWrite(p) ==
  LET me == proc[p] IN
  /\ me.pc = "grade" /\ me.todo = {}
  /\ sessions' = [sessions EXCEPT ![me.s].status = "COMPLETED", ![me.s].score = me.total]
  /\ Goto(p, [pc |-> "attendance", s |-> me.s, total |-> me.total, rest |-> me.rest])
  /\ UNCHANGED <<points, failures, together>>

\* Mutant of Attended: earlier points for the booking are not looked for.
AttendedNever(booking) == booking \notin Booking

Attended(booking) == booking \notin Booking \/ points[booking] > 0

\* Is there a booking, and has it brought points yet?
Attendance(p) ==
  LET me == proc[p] IN
  /\ me.pc = "attendance"
  /\ IF Attended(sessions[me.s].booking)
       THEN Finish(p, me.rest) ELSE Goto(p, [me EXCEPT !.pc = "award"])
  /\ UNCHANGED <<sessions, points, failures, together>>

\* 2 + 8 * score / max, rounded, and between 2 and 10.
CompletionPoints(score, max) ==
  IF max = 0 THEN 2 ELSE (2 * (2 * max + 8 * score) + max) \div (2 * max)

\* addTransaction: the transaction and the account's total, at once.
Award(p) ==
  LET me == proc[p] IN
  /\ me.pc = "award"
  /\ points' = [points EXCEPT ![sessions[me.s].booking] =
                  @ + CompletionPoints(me.total, MaxScore(sessions[me.s].items))]
  /\ Finish(p, me.rest)
  /\ UNCHANGED <<sessions, failures, together>>

-----------------------------------------------------------------------------
(* submitAnswer *)

AnswerRead(p, s, i, value) ==
  /\ proc[p].pc = "idle" /\ p # Cron
  /\ Running(s) /\ ~Late(s)
  /\ i \in sessions[s].items
  /\ Goto(p, [pc |-> "answer", s |-> s, item |-> i, value |-> value])
  /\ UNCHANGED <<sessions, points, failures, together>>

AnswerWrite(p) ==
  LET me == proc[p] IN
  /\ me.pc = "answer"
  /\ sessions' = [sessions EXCEPT ![me.s].answer[me.item] = me.value]
  /\ Goto(p, Idle)
  /\ UNCHANGED <<points, failures, together>>

\* An answer that comes too late completes the session instead: see Complete.

-----------------------------------------------------------------------------
(* extendSessionByMonitor and abortSessionByMonitor *)

ExtendRead(p, s, minutes) ==
  /\ proc[p].pc = "idle" /\ p # Cron
  /\ Running(s)
  /\ sessions[s].duration + minutes <= Longest
  /\ Goto(p, [pc |-> "extend", s |-> s, duration |-> sessions[s].duration + minutes])
  /\ UNCHANGED <<sessions, points, failures, together>>

\* Mutant of Extended: the column is incremented by the minutes asked for.
ExtendedByIncrement(s, duration) == sessions[s].duration + 1

\* The duration is written as it was computed, so that extensions that overlap
\* do not add up beyond the limit (720 minutes).
Extended(s, duration) == duration

ExtendWrite(p) ==
  LET me == proc[p] IN
  /\ me.pc = "extend"
  /\ sessions' = [sessions EXCEPT ![me.s].duration = Extended(me.s, me.duration)]
  /\ Goto(p, Idle)
  /\ UNCHANGED <<points, failures, together>>

AbortRead(p, s) ==
  /\ proc[p].pc = "idle" /\ p # Cron
  /\ Running(s)
  /\ Goto(p, [pc |-> "abort", s |-> s])
  /\ UNCHANGED <<sessions, points, failures, together>>

AbortWrite(p) ==
  /\ proc[p].pc = "abort"
  /\ sessions' = [sessions EXCEPT ![proc[p].s].status = "ABANDONED"]
  /\ Goto(p, Idle)
  /\ UNCHANGED <<points, failures, together>>

-----------------------------------------------------------------------------
(* autoCompleteExpiredSessions *)

\* Mutant of Due: only the sessions without a booking are looked for.
DueUnbooked == {s \in Session : Running(s) /\ Late(s) /\ sessions[s].booking = None}

Due == {s \in Session : Running(s) /\ Late(s)}

\* All sessions in progress are read at once; the late ones are completed.
JobRead ==
  /\ proc[Cron].pc = "idle"
  /\ Due # {}
  /\ Goto(Cron, [pc |-> "batch", rest |-> Due])
  /\ UNCHANGED <<sessions, points, failures, together>>

\* completeSession looks again whether the session runs, not whether it is late.
JobNext(s) ==
  LET me == proc[Cron] IN
  /\ me.pc = "batch" /\ s \in me.rest
  /\ IF Running(s) THEN CompleteRead(Cron, s, me.rest \ {s})
     ELSE /\ Goto(Cron, [me EXCEPT !.rest = me.rest \ {s}])
          /\ UNCHANGED <<sessions, points, failures, together>>

JobEnd ==
  /\ proc[Cron].pc = "batch" /\ proc[Cron].rest = {}
  /\ Goto(Cron, Idle)
  /\ UNCHANGED <<sessions, points, failures, together>>

-----------------------------------------------------------------------------
\* Time passes for the sessions in progress.
Tick ==
  /\ \E s \in Session : Running(s) /\ ~Late(s)
  /\ sessions' = [s \in Session |-> IF Running(s) /\ ~Late(s)
                    THEN [sessions[s] EXCEPT !.age = @ + 1] ELSE sessions[s]]
  /\ UNCHANGED <<points, proc, failures, together>>

\* A call is rejected.  The job goes on with its next session.
Fail(p) ==
  /\ proc[p].pc \notin {"idle", "batch"}
  /\ failures < MaxFailures /\ failures' = failures + 1
  /\ Finish(p, IF p = Cron THEN proc[p].rest ELSE {})
  /\ UNCHANGED <<sessions, points, together>>

Goes(p) ==
  \/ \E i \in Item : Grade(p, i)
  \/ CompleteWrite(p) \/ Attendance(p) \/ Award(p)

Job == JobRead \/ (\E s \in Session : JobNext(s)) \/ JobEnd \/ Goes(Cron)

Step(p) ==
  \/ Goes(p) \/ AnswerWrite(p) \/ ExtendWrite(p) \/ AbortWrite(p) \/ Fail(p)
  \/ \E s \in Session :
       \/ Complete(p, s) \/ AbortRead(p, s)
       \/ \E minutes \in 1..Longest : ExtendRead(p, s, minutes)
       \/ \E i \in Item, value \in {"right", "wrong"} : AnswerRead(p, s, i, value)
       \/ \E booking \in Booking \cup {None}, duration \in 1..Longest, total \in 1..MaxItems,
             questions, problems \in BOOLEAN :
            CreateSession(p, s, booking, duration, total, questions, problems)

Next == Job \/ Tick \/ (\E p \in Request : Step(p)) \/ Fail(Cron)

\* The job is run every minute, and time passes; a request may hang.
Fairness == WF_vars(Job) /\ WF_vars(Tick)

Spec == Init /\ [][Next]_vars /\ Fairness

-----------------------------------------------------------------------------
(* Properties *)

(***************************************************************************)
(* The points of a booking are looked for and then added, so completions   *)
(* that run together may each add some; those that come later add none,    *)
(* whatever other sessions the booking has.                                *)
(***************************************************************************)
AttendancePaysOnce == \A b \in Booking : points[b] <= 10 * Cardinality(Process)

(***************************************************************************)
(* The score of a completed session is what the marks of its items add up  *)
(* to, though answers were saved, and completions failed half-way and were *)
(* begun again, meanwhile; only two completions grading the session        *)
(* together may leave a score that is not the sum.                         *)
(***************************************************************************)
ScoreIsSum ==
  \A s \in Session \ together :
    sessions[s].status = "COMPLETED" =>
      sessions[s].score = MarkSum(sessions[s].items, sessions[s].mark)

(***************************************************************************)
(* A session does not stay open: as extensions cannot go on for ever and   *)
(* the job tries again what has failed, every session is ended, if only    *)
(* the student never comes back to do it.                                  *)
(***************************************************************************)
SessionsEnd == \A s \in Session : Running(s) ~> ~Running(s)
=============================================================================
