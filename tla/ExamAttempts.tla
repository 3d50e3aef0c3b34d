------------------------------ MODULE ExamAttempts ------------------------------
(***************************************************************************)
(* One student starts exam sessions: pretests at a kiosk, which are        *)
(* limited for each day and end with a pass, and exams picked from the     *)
(* list (src/exams: startAutoPretestSession, startSession).                *)
(*                                                                         *)
(* Either looks for a session to go on with, may end it when its time is   *)
(* over, checks what has been taken, and inserts a row, in queries of      *)
(* their own; no index forbids a second row.  What becomes of a session    *)
(* is left to chance here (module ExamResults says it): it is ended, with  *)
(* a pass or without, its result is published, it is given more time.      *)
(*                                                                         *)
(* Exams are what a start asks of them: their type, whether students may   *)
(* see them, whether a pretest may use them.  Seeds and shuffling are left *)
(* out.                                                                    *)
(***************************************************************************)
EXTENDS Integers, FiniteSets, FiniteSetsExt

CONSTANTS
  Official, Practice,  \* exams of type EXAM, of type PRACTICE
  None,                \* null; the exam made for one pretest
  Process,             \* requests handled at the same time
  Configuration,       \* bound: the pretest configurations that are saved
  MaxSessions,         \* bound: sessions, numbered as they start
  MaxDay               \* bound: days

Exam == Official \cup Practice

\* What the constants are; the instances assume it.
\* A configuration is maxAttempts, lockAfterPass and the pool of exams; an empty
\* pool stands for the bank of questions.
ConstantsAssumption ==
  /\ Official \cap Practice = {} /\ None \notin Exam
  /\ Configuration \subseteq [max : Nat, lock : BOOLEAN, pool : SUBSET Official]
  /\ IsFiniteSet(Configuration) /\ None \notin Configuration
  /\ {MaxSessions, MaxDay} \subseteq Nat /\ IsFiniteSet(Process)

VARIABLES
  config,   \* the pretest configuration, None while pretests are disabled
  open,     \* the exams that students may see and pretests use
  booking,  \* type of the student's active, checked-in booking, or None
  rows,     \* the ExamSession rows of the student
  day,      \* the day in Vietnam
  proc,     \* where each process is and what it has read
  beyond    \* history: locked pretests started while a pass is published

vars == <<config, open, booking, rows, day, proc, beyond>>

\* late and booked (by the student's present booking) while it is in progress.
Row ==
  [exam : Exam \cup {None}, pretest : BOOLEAN, booked : BOOLEAN, ended : BOOLEAN,
   late : BOOLEAN, passed : BOOLEAN \cup {None}, published : BOOLEAN, day : 0..MaxDay]
Id == 1..MaxSessions

Idle == [pc |-> "idle"]
Local ==
  {Idle}
  \cup [pc : {"saveConfig"}, config : Configuration \cup {None}]
  \cup [pc : {"find", "count"}, config : Configuration, day : 0..MaxDay]
  \cup [pc : {"expire"}, config : Configuration, day : 0..MaxDay, id : Id]
  \cup [pc : {"assign"}, config : Configuration]
  \cup [pc : {"insertPretest"}, config : Configuration, exam : Official \cup {None}]
  \cup [pc : {"linked", "latest", "insert"}, exam : Exam, booked : BOOLEAN]
  \cup [pc : {"end"}, exam : Exam, booked : BOOLEAN, id : Id, next : {"latest", "insert"}]

Number == Cardinality(DOMAIN rows)

TypeOK ==
  /\ config \in Configuration \cup {None} /\ open \subseteq Exam
  /\ booking \in {"EXAM", "PRACTICE", None}
  /\ Number <= MaxSessions /\ rows \in [1..Number -> Row]
  /\ day \in 0..MaxDay
  /\ proc \in [Process -> Local]
  /\ beyond \in Nat

Init ==
  /\ config = None
  /\ open = Exam /\ booking = None /\ day = 0
  /\ rows = [i \in 1..0 |-> None]
  /\ proc = [p \in Process |-> Idle]
  /\ beyond = 0

Goto(p, next) == proc' = [proc EXCEPT ![p] = next]
End(p) == Goto(p, Idle)
Reads == UNCHANGED <<config, open, booking, rows, day, beyond>>

Latest(set) == Max(set)
Passes == {i \in DOMAIN rows : rows[i].pretest /\ rows[i].passed = TRUE /\ rows[i].published}

Insert(exam, pretest, booked) ==
  rows' = [i \in 1..(Number + 1) |-> IF i <= Number THEN rows[i]
            ELSE [exam |-> exam, pretest |-> pretest, booked |-> booked, ended |-> FALSE,
                  late |-> FALSE, passed |-> None, published |-> FALSE, day |-> day]]

\* The row of a session that ends.
Over(row, passed) ==
  [row EXCEPT !.ended = TRUE, !.late = FALSE, !.booked = FALSE, !.passed = passed]

-----------------------------------------------------------------------------
(* upsertPretestConfig *)

\* The exams of a pool have to be open.
ConfigRead(p, new) ==
  /\ proc[p].pc = "idle"
  /\ new # None => new.pool \subseteq open
  /\ Goto(p, [pc |-> "saveConfig", config |-> new])
  /\ Reads

ConfigWrite(p) ==
  /\ proc[p].pc = "saveConfig"
  /\ End(p)
  /\ config' = proc[p].config
  /\ UNCHANGED <<open, booking, rows, day, beyond>>

-----------------------------------------------------------------------------
(* startAutoPretestSession *)

PretestBegin(p) ==
  /\ proc[p].pc = "idle" /\ config # None
  /\ Goto(p, [pc |-> "find", config |-> config, day |-> day])
  /\ Reads

\* A session in progress is resumed, or ended when its time is over.
FindPretest(p) ==
  LET found == {i \in DOMAIN rows : rows[i].pretest /\ ~rows[i].ended}
      c == proc[p].config
      d == proc[p].day
  IN
  /\ proc[p].pc = "find"
  /\ IF booking # "EXAM" THEN End(p)
     ELSE IF found = {} THEN Goto(p, [pc |-> "count", config |-> c, day |-> d])
     ELSE IF ~rows[Latest(found)].late THEN End(p)
     ELSE Goto(p, [pc |-> "expire", config |-> c, day |-> d, id |-> Latest(found)])
  /\ Reads

\* Whatever has become of the session since.
ExpirePretest(p) ==
  LET i == proc[p].id IN
  /\ proc[p].pc = "expire"
  /\ Goto(p, [pc |-> "count", config |-> proc[p].config, day |-> proc[p].day])
  /\ rows' = [rows EXCEPT ![i] = Over(@, FALSE)]
  /\ beyond' = IF Passes \subseteq {i} THEN 0 ELSE beyond
  /\ UNCHANGED <<config, open, booking, day>>

\* Mutant of Used: only sessions whose result is published count.
UsedUp(d) == {i \in DOMAIN rows : rows[i].pretest /\ rows[i].day = d /\ rows[i].published}

Used(d) == {i \in DOMAIN rows : rows[i].pretest /\ rows[i].day = d}

CountPretests(p) ==
  LET c == proc[p].config IN
  /\ proc[p].pc = "count"
  /\ IF \/ c.lock /\ Passes # {}
        \/ Cardinality(Used(proc[p].day)) >= c.max
       THEN End(p)
       ELSE Goto(p, [pc |-> "assign", config |-> c])
  /\ Reads

Assign(p, exam) ==
  Goto(p, [pc |-> "insertPretest", config |-> proc[p].config, exam |-> exam])

\* One of the pool's exams that can still be used.
AssignFromPool(p) ==
  LET usable == proc[p].config.pool \cap open IN
  /\ proc[p].pc = "assign" /\ proc[p].config.pool # {}
  /\ IF usable = {} THEN End(p) ELSE \E exam \in usable : Assign(p, exam)
  /\ Reads

\* An exam made for the occasion, for which the bank may not suffice.
AssignFromBank(p) ==
  /\ proc[p].pc = "assign" /\ proc[p].config.pool = {}
  /\ Assign(p, None) \/ End(p)
  /\ Reads

InsertPretest(p) ==
  LET c == proc[p].config IN
  /\ proc[p].pc = "insertPretest" /\ Number < MaxSessions
  /\ End(p)
  /\ Insert(proc[p].exam, TRUE, FALSE)
  /\ beyond' = IF c.lock /\ Passes # {} THEN beyond + 1 ELSE beyond
  /\ UNCHANGED <<config, open, booking, day>>

-----------------------------------------------------------------------------
(* startSession by a student; kiosks of walk-ins start no official exam *)

StartBegin(p, x, walkIn) ==
  /\ proc[p].pc = "idle"
  /\ x \in Official => booking # "EXAM" /\ ~walkIn
  /\ LET booked == x \in Practice /\ booking = "PRACTICE" IN
     Goto(p, [pc |-> IF booked THEN "linked" ELSE "latest", exam |-> x, booked |-> booked])
  /\ Reads

EndNext(p, i, next) ==
  Goto(p, [pc |-> "end", exam |-> proc[p].exam, booked |-> proc[p].booked, id |-> i, next |-> next])

\* A session of the booking is resumed, whichever exam it is of.
FindLinked(p) ==
  LET found == {i \in DOMAIN rows : rows[i].booked /\ ~rows[i].ended} IN
  /\ proc[p].pc = "linked"
  /\ IF found = {} THEN Goto(p, [proc[p] EXCEPT !.pc = "latest"])
     ELSE IF rows[Latest(found)].late THEN EndNext(p, Latest(found), "latest")
     ELSE End(p)
  /\ Reads

\* Mutant of Started: a session whose time is over is forgotten.
StartedNow(x) == {i \in DOMAIN rows : rows[i].exam = x /\ ~(rows[i].late /\ ~rows[i].ended)}

Started(x) == {i \in DOMAIN rows : rows[i].exam = x}

\* The last session of the exam: an official one ends the matter, unless it is
\* in progress; one for practice is taken again.
FindLatest(p) ==
  LET x == proc[p].exam
      i == Latest(Started(x))
      insert == [pc |-> "insert", exam |-> x, booked |-> proc[p].booked]
  IN
  /\ proc[p].pc = "latest"
  /\ IF x \notin open THEN End(p)
     ELSE IF Started(x) = {} THEN Goto(p, insert)
     ELSE IF ~rows[i].ended /\ ~rows[i].late THEN End(p)
     ELSE IF x \in Official THEN End(p)
     ELSE IF rows[i].ended THEN Goto(p, insert)
     ELSE EndNext(p, i, "insert")
  /\ Reads

EndWrite(p) ==
  /\ proc[p].pc = "end"
  /\ Goto(p, [pc |-> proc[p].next, exam |-> proc[p].exam, booked |-> proc[p].booked])
  /\ rows' = [rows EXCEPT ![proc[p].id] = Over(@, @.passed)]
  /\ UNCHANGED <<config, open, booking, day, beyond>>

InsertSession(p) ==
  /\ proc[p].pc = "insert" /\ Number < MaxSessions
  /\ End(p)
  /\ Insert(proc[p].exam, FALSE, proc[p].booked)
  /\ UNCHANGED <<config, open, booking, day, beyond>>

-----------------------------------------------------------------------------
(* What happens elsewhere *)

\* Submitted, by the student, the job or a monitor, and graded or not.
EndSession(i, passed) ==
  /\ i \in DOMAIN rows /\ ~rows[i].ended
  /\ rows' = [rows EXCEPT ![i] = Over(@, passed)]
  /\ UNCHANGED <<config, open, booking, day, proc, beyond>>

Grade(i, passed) ==
  /\ i \in DOMAIN rows /\ rows[i].ended /\ ~rows[i].published /\ rows[i].passed # passed
  /\ rows' = [rows EXCEPT ![i].passed = passed]
  /\ UNCHANGED <<config, open, booking, day, proc, beyond>>

Publish(i) ==
  /\ i \in DOMAIN rows /\ rows[i].ended /\ ~rows[i].published /\ rows[i].passed # None
  /\ rows' = [rows EXCEPT ![i].published = TRUE]
  /\ UNCHANGED <<config, open, booking, day, proc, beyond>>

\* The deadline passes, a monitor extends it.
Deadline(i, late) ==
  /\ i \in DOMAIN rows /\ ~rows[i].ended /\ rows[i].late # late
  /\ rows' = [rows EXCEPT ![i].late = late]
  /\ UNCHANGED <<config, open, booking, day, proc, beyond>>

\* Sessions of a booking that is over belong to no booking here.
Book(type) ==
  /\ booking # type /\ (type # None => booking = None)
  /\ booking' = type
  /\ rows' = [i \in DOMAIN rows |-> [rows[i] EXCEPT !.booked = FALSE]]
  /\ UNCHANGED <<config, open, day, proc, beyond>>

OpenExam(x) ==
  /\ open' = IF x \in open THEN open \ {x} ELSE open \cup {x}
  /\ UNCHANGED <<config, booking, rows, day, proc, beyond>>

Midnight ==
  /\ day < MaxDay /\ day' = day + 1
  /\ UNCHANGED <<config, open, booking, rows, proc, beyond>>

Fail(p) == proc[p].pc # "idle" /\ End(p) /\ Reads

Step(p) ==
  \/ \E new \in Configuration \cup {None} : ConfigRead(p, new)
  \/ ConfigWrite(p)
  \/ PretestBegin(p) \/ FindPretest(p) \/ ExpirePretest(p) \/ CountPretests(p)
  \/ AssignFromPool(p) \/ AssignFromBank(p) \/ InsertPretest(p)
  \/ \E x \in Exam, walkIn \in BOOLEAN : StartBegin(p, x, walkIn)
  \/ FindLinked(p) \/ FindLatest(p) \/ EndWrite(p) \/ InsertSession(p)
  \/ Fail(p)

Next ==
  \/ \E p \in Process : Step(p)
  \/ \E i \in Id, passed \in BOOLEAN \cup {None} : EndSession(i, passed)
  \/ \E i \in Id, passed \in BOOLEAN : Grade(i, passed)
  \/ \E i \in Id : Publish(i) \/ \E late \in BOOLEAN : Deadline(i, late)
  \/ \E type \in {"EXAM", "PRACTICE", None} : Book(type)
  \/ \E x \in Exam : OpenExam(x)
  \/ Midnight

Spec == Init /\ [][Next]_vars

-----------------------------------------------------------------------------
(* Properties *)

(***************************************************************************)
(* "maxAttempts": no more pretests are started in one day than the most a  *)
(* configuration allowed, but for those of requests that counted before    *)
(* another one inserted.  Ended, resumed, expired or extended, a session   *)
(* counts for the day it started on.  "lockAfterPass": once a pass is      *)
(* published, on whatever day, a pretest is started only by requests that  *)
(* had looked for a pass before, one each.                                 *)
(***************************************************************************)
PretestsAreLimited ==
  /\ \A d \in 0..MaxDay :
       LET started == {i \in DOMAIN rows : rows[i].pretest /\ rows[i].day = d} IN
       \/ started = {}
       \/ \E c \in Configuration : Cardinality(started) <= c.max + Cardinality(Process) - 1
  /\ beyond <= Cardinality(Process)

(***************************************************************************)
(* "Ban da hoan thanh de thi nay roi", "Thoi gian lam bai da het": an      *)
(* official exam is taken from the list once, but by requests that looked  *)
(* for a session at the same time.  Not again when its time is over before *)
(* it is submitted, nor when a pretest assigned it.                        *)
(***************************************************************************)
OfficialExamsOnce ==
  \A x \in Official :
    Cardinality({i \in DOMAIN rows : rows[i].exam = x /\ ~rows[i].pretest})
      <= Cardinality(Process)
=============================================================================
