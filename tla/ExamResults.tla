----------------------------- MODULE ExamResults -----------------------------
(***************************************************************************)
(* The results of one exam session: answers, automatic and manual grading, *)
(* publication, cancellation for cheating, the monitors' actions and the   *)
(* points for completing it (src/exams, src/proctoring, src/points).       *)
(*                                                                         *)
(* Every handler reads the session, awaits the judge, the AI grader or the *)
(* database, and then writes without a condition on the row.  Grading is a *)
(* transaction of several statements at READ COMMITTED: it locks the       *)
(* answers it updates and totals the others as committed by then.  The     *)
(* submitting transaction updates every answer first, so all others come   *)
(* before or after it as a whole.  A call may fail at any step, which ends *)
(* the handler and rolls its transaction back.                             *)
(*                                                                         *)
(* Whether an answer is right is left open: a mark is any number of points *)
(* up to Worth.  What was answered, feedback, audits and notices are left  *)
(* out.                                                                    *)
(***************************************************************************)
EXTENDS Integers, FiniteSets

CONSTANTS
  Item,         \* the items of the exam
  Short, Code,  \* those answered by a short text, by a program; else by choice
  Worth,        \* the points of each item
  Type,         \* Exam.type
  Pretest,      \* isPretestSession
  Booked,       \* the session belongs to a booking
  Threshold,    \* appliedPassingScoreAbsolute, or None
  WarnAt, CancelAt,  \* severities that cost points, that cancel the exam
  Process,      \* request handlers and runs of the job at the same time
  None,         \* null
  MaxSeverity,  \* bound: no report at or above this severity
  MaxAwarded    \* bound: one grading at a time while more points are awarded

ASSUME ItemsAssumption ==
  /\ IsFiniteSet(Item) /\ Short \subseteq Item /\ Code \subseteq Item /\ Short \cap Code = {}
  /\ Worth \in Nat
ASSUME SessionAssumption ==
  /\ Type \in {"EXAM", "PRACTICE"} /\ Pretest \in BOOLEAN /\ Booked \in BOOLEAN
  /\ None \notin Int /\ None \notin BOOLEAN /\ Threshold \in Nat \cup {None}
ASSUME SeverityAssumption == WarnAt \in Nat /\ CancelAt \in Nat \ {0} /\ MaxSeverity \in Nat
ASSUME HandlersAssumption ==
  IsFiniteSet(Process) /\ MaxAwarded \in Nat

VARIABLES
  late,       \* the session's deadline has passed (isSessionExpired)
  status,     \* ExamSession.status
  score,      \* ExamSession.score
  passed,     \* ExamSession.passed
  published,  \* resultPublicationStatus is PUBLISHED
  answered,   \* the items with a row in ExamSessionAnswer
  mark,       \* mark[i]: the score of the answer to i
  reviewed,   \* the items whose answer has reviewedAt
  awarded,    \* the sum of the EXAM_COMPLETION transactions of the session
  severity,   \* the sum of the warning levels of its proctoring events
  warnings,   \* PROCTORING_WARNING transactions
  cancels,    \* EXAM_CANCELLED_PENALTY transactions
  proc,       \* where each process is and what it has read
  races       \* history: the sections two processes were in at once

result == <<status, score, passed, published>>
answers == <<answered, mark, reviewed>>
conduct == <<severity, warnings, cancels>>
vars == <<late, result, answers, awarded, conduct, proc, races>>

Mark == (0..Worth) \cup {None}
Unmarked == [i \in Item |-> None]

Idle == [pc |-> "idle"]

\* A handler that has read the session and will write; submitSession while it
\* grades; a job that has found the session expired.
Reading == [pc : {"grading", "picked", "publish", "abort", "force", "expire", "extend",
                  "warn", "cancel", "penalty"}]
Saving == [pc : {"save"}, item : Item]
\* A lecturer's grades, or with ~review the judge's for one program; then the
\* open transaction with what it has totalled.
Grading == [pc : {"grade"}, items : (SUBSET Item) \ {{}}, review : BOOLEAN]
      \cup [pc : {"commit"}, new : [Item -> Mark], review : BOOLEAN,
            total : Nat, complete : BOOLEAN]
Rewarding == [pc : {"sync"}, score : Nat] \cup [pc : {"award"}, delta : Int]
\* open: the session was IN_PROGRESS when the report came in.
Reporting == [pc : {"log", "sum"}, level : 1..3, open : BOOLEAN]

Local == {Idle} \cup Reading \cup Saving \cup Grading \cup Rewarding \cup Reporting

TypeOK ==
  /\ late \in BOOLEAN
  /\ status \in {"IN_PROGRESS", "SUBMITTED", "GRADED"}
  /\ score \in Nat \cup {None}
  /\ passed \in BOOLEAN \cup {None}
  /\ published \in BOOLEAN
  /\ answered \subseteq Item
  /\ mark \in [Item -> Mark]
  /\ reviewed \subseteq Item
  /\ awarded \in Int
  /\ severity \in Nat /\ warnings \in Nat /\ cancels \in Nat
  /\ proc \in [Process -> Local]
  /\ races \subseteq {"grade", "award"}

Init ==
  /\ late = FALSE
  /\ status = "IN_PROGRESS" /\ score = None /\ passed = None /\ published = FALSE
  /\ answered = {} /\ mark = Unmarked /\ reviewed = {}
  /\ awarded = 0
  /\ severity = 0 /\ warnings = 0 /\ cancels = 0
  /\ proc = [p \in Process |-> Idle]
  /\ races = {}

Goto(p, next) == proc' = [proc EXCEPT ![p] = next]
End(p) == Goto(p, Idle)
Await(p, label) == Goto(p, [pc |-> label])

\* The processes at one of the given labels.
At(labels) == {p \in Process : proc[p].pc \in labels}

\* Process p enters a section; a race if another is already in it.
Enters(p, label, section) ==
  races' = IF At({label}) \ {p} = {} THEN races ELSE races \cup {section}

\* The answer to i was updated by a transaction that has not committed.
Locked(i) == \E p \in Process : proc[p].pc = "commit" /\ proc[p].new[i] # None

\* The points earned with marks m, each counted once.
Total(m) == Cardinality({u \in Item \X (1..Worth) : m[u[1]] # None /\ u[2] <= m[u[1]]})

\* resolvePassedState
PassedState(total, complete) ==
  IF complete /\ Threshold # None THEN total >= Threshold ELSE None

\* Mutant of GradedState: the status that ends a practice session.
GradedStateOfPractice(complete) == IF complete THEN "COMPLETED" ELSE "SUBMITTED"

GradedState(complete) == IF complete THEN "GRADED" ELSE "SUBMITTED"

\* passed of a session that is ended for the student.
NotPassed == IF Threshold # None THEN FALSE ELSE None

Full == Cardinality(Item \X (1..Worth))

\* n, or the bound of low..high it exceeds.
Within(low, high, n) == IF n < low THEN low ELSE IF n > high THEN high ELSE n

\* calculateExamCompletionPoints: 5 + 15 * total / Full, rounded half up.
CompletionPoints(total) ==
  IF Full = 0 THEN 5
  ELSE Within(5, 20, (2 * (5 * Full + 15 * total) + Full) \div (2 * Full))

-----------------------------------------------------------------------------
(* saveAnswer *)

SaveRead(p, i) ==
  /\ proc[p].pc = "idle"
  /\ status = "IN_PROGRESS"
  /\ Goto(p, [pc |-> "save", item |-> i])
  /\ UNCHANGED <<late, result, answers, awarded, conduct, races>>

\* The upsert leaves the mark of a row that exists.
SaveWrite(p) ==
  /\ proc[p].pc = "save"
  /\ ~Locked(proc[p].item)
  /\ answered' = answered \cup {proc[p].item}
  /\ End(p)
  /\ UNCHANGED <<late, result, mark, reviewed, awarded, conduct, races>>

-----------------------------------------------------------------------------
(* submitSession, and the job's autoSubmitExpiredSessions *)

JobPick(p) ==
  /\ proc[p].pc = "idle"
  /\ status = "IN_PROGRESS"
  /\ late
  /\ Await(p, "picked")
  /\ UNCHANGED <<late, result, answers, awarded, conduct, races>>

\* The session is read (again, by the job), then graded item by item.
SubmitRead(p) ==
  /\ proc[p].pc \in {"idle", "picked"}
  /\ status = "IN_PROGRESS"
  /\ ~late
  /\ Await(p, "grading")
  /\ UNCHANGED <<late, result, answers, awarded, conduct, races>>

\* submitSession refuses; the job logs that and goes on.
JobRefused(p) ==
  /\ proc[p].pc = "picked"
  /\ status # "IN_PROGRESS" \/ late
  /\ End(p)
  /\ UNCHANGED <<late, result, answers, awarded, conduct, races>>

\* The transaction: every item has an answer and a mark after it.
SubmitWrite(p, marks) ==
  /\ proc[p].pc = "grading"
  /\ \A i \in Item : ~Locked(i)
  /\ answered' = Item
  /\ mark' = marks
  /\ status' = GradedState(TRUE)
  /\ score' = Total(marks)
  /\ passed' = PassedState(Total(marks), TRUE)
  /\ published' = (Type = "PRACTICE" \/ Short = {})
  /\ Goto(p, [pc |-> "sync", score |-> Total(marks)])
  /\ UNCHANGED <<late, reviewed, awarded, conduct, races>>

-----------------------------------------------------------------------------
(* gradeSession and regradeProblemItem *)

\* The answers a lecturer may mark.
Gradable == Short \cup Code

\* The bound on races for points.
MayGrade == awarded \in 0..MaxAwarded \/ At({"idle"}) = Process

GradeRead(p, items) ==
  /\ proc[p].pc = "idle"
  /\ status # "IN_PROGRESS"
  /\ items # {}
  /\ MayGrade
  /\ Goto(p, [pc |-> "grade", items |-> items, review |-> TRUE])
  /\ UNCHANGED <<late, result, answers, awarded, conduct, races>>

\* A program that was handed in is judged again.
RegradeRead(p, i) ==
  /\ proc[p].pc = "idle"
  /\ status # "IN_PROGRESS"
  /\ i \in Code \cap answered
  /\ MayGrade
  /\ Goto(p, [pc |-> "grade", items |-> {i}, review |-> FALSE])
  /\ UNCHANGED <<late, result, answers, awarded, conduct, races>>

\* The marks of all answers once those of new are given.
Given(new) == [i \in Item |-> IF new[i] # None THEN new[i] ELSE mark[i]]

\* Mutant of NewTotal: only the answers marked now are totalled.
NewTotalAlone(new) == Total(new)

NewTotal(new) == Total(Given(new))

\* The transaction updates the answers of its items and totals all of them.
GradeTotal(p, new) ==
  LET g == proc[p] IN
  /\ g.pc = "grade"
  /\ {i \in Item : new[i] # None} = g.items
  /\ g.items \subseteq answered
  /\ \A i \in g.items : ~Locked(i)
  /\ Goto(p, [pc |-> "commit", new |-> new, review |-> g.review, total |-> NewTotal(new),
              complete |-> \A i \in answered : Given(new)[i] # None])
  /\ Enters(p, "commit", "grade")
  /\ UNCHANGED <<late, result, answers, awarded, conduct>>

GradeCommit(p) ==
  LET g == proc[p] touched == {i \in Item : g.new[i] # None} IN
  /\ g.pc = "commit"
  /\ mark' = Given(g.new)
  /\ reviewed' = IF g.review THEN reviewed \cup touched ELSE reviewed \ touched
  /\ status' = GradedState(g.complete)
  /\ score' = g.total
  /\ passed' = PassedState(g.total, g.complete)
  /\ Goto(p, [pc |-> "sync", score |-> g.total])
  /\ UNCHANGED <<late, published, answered, awarded, conduct, races>>

-----------------------------------------------------------------------------
(* syncExamCompletionPoints *)

\* Practising an exam without a booking earns nothing.
Target(total) == IF Type = "PRACTICE" /\ ~Booked THEN 0 ELSE CompletionPoints(total)

\* Mutant of Missing: the points of every grading are awarded in full.
MissingAll(total) == Target(total)

\* What is still to be awarded, or taken back.
Missing(total) == Target(total) - awarded

SyncRead(p) ==
  /\ proc[p].pc = "sync"
  /\ IF Missing(proc[p].score) = 0
       THEN End(p) /\ UNCHANGED races
       ELSE /\ Goto(p, [pc |-> "award", delta |-> Missing(proc[p].score)])
            /\ Enters(p, "award", "award")
  /\ UNCHANGED <<late, result, answers, awarded, conduct>>

AwardWrite(p) ==
  /\ proc[p].pc = "award"
  /\ awarded' = awarded + proc[p].delta
  /\ End(p)
  /\ UNCHANGED <<late, result, answers, conduct, races>>

-----------------------------------------------------------------------------
(* publishSessionResults *)

\* Mutant of MayPublish: the short answers need not be reviewed.
MayPublishEarly == status # "IN_PROGRESS" /\ ~published

MayPublish == status # "IN_PROGRESS" /\ ~published /\ Short \subseteq reviewed

PublishRead(p) ==
  /\ proc[p].pc = "idle"
  /\ MayPublish
  /\ Await(p, "publish")
  /\ UNCHANGED <<late, result, answers, awarded, conduct, races>>

PublishWrite(p) ==
  /\ proc[p].pc = "publish"
  /\ published' = TRUE
  /\ End(p)
  /\ UNCHANGED <<late, status, score, passed, answers, awarded, conduct, races>>

-----------------------------------------------------------------------------
(* Monitors: abort, force-submit, extend; a new start of an expired session *)

OpenRead(p, label) ==
  /\ proc[p].pc = "idle"
  /\ status = "IN_PROGRESS"
  /\ label = "expire" => late /\ (Pretest \/ Type = "PRACTICE")
  /\ Await(p, label)
  /\ UNCHANGED <<late, result, answers, awarded, conduct, races>>

\* The abort is recorded as a proctoring event of level 3.
AbortWrite(p) ==
  /\ proc[p].pc = "abort"
  /\ status' = "SUBMITTED"
  /\ score' = 0
  /\ passed' = NotPassed
  /\ severity' = severity + 3
  /\ End(p)
  /\ UNCHANGED <<late, published, answers, awarded, warnings, cancels, races>>

\* The student is not part of what was read, submitSession refuses every time,
\* and the session is ended without being graded.
ForceWrite(p) ==
  /\ proc[p].pc = "force"
  /\ status' = "SUBMITTED"
  /\ passed' = NotPassed
  /\ End(p)
  /\ UNCHANGED <<late, score, published, answers, awarded, conduct, races>>

\* startAutoPretestSession and startSession end an expired session first.
ExpireWrite(p) ==
  /\ proc[p].pc = "expire"
  /\ status' = "SUBMITTED"
  /\ passed' = IF Pretest THEN NotPassed ELSE passed
  /\ End(p)
  /\ UNCHANGED <<late, score, published, answers, awarded, conduct, races>>

\* The new deadline counts from the one that was read.
ExtendWrite(p) ==
  /\ proc[p].pc = "extend"
  /\ late' \in BOOLEAN
  /\ End(p)
  /\ UNCHANGED <<result, answers, awarded, conduct, races>>

-----------------------------------------------------------------------------
(* ProctoringService.reportEvent.  A TAB_SWITCH is a report of level 1 that *)
(* ends once it is logged.                                                  *)

ReportRead(p, level) ==
  /\ proc[p].pc = "idle"
  /\ Type = "EXAM"
  /\ severity < MaxSeverity
  /\ Goto(p, [pc |-> "log", level |-> level, open |-> status = "IN_PROGRESS"])
  /\ UNCHANGED <<late, result, answers, awarded, conduct, races>>

ReportLog(p) ==
  /\ proc[p].pc = "log"
  /\ severity' = severity + proc[p].level
  /\ Goto(p, [pc |-> "sum", level |-> proc[p].level, open |-> proc[p].open])
  /\ UNCHANGED <<late, result, answers, awarded, warnings, cancels, races>>

\* Mutant of Cancellable: the status the session had is not looked at.
CancellableAlways(p) == severity >= CancelAt

\* The session was open when the report came in and has seen too much since.
Cancellable(p) == severity >= CancelAt /\ proc[p].open

\* Mutant of Warnable: warnings go on beyond the severity that cancels.
WarnableForever(p) == severity >= WarnAt /\ proc[p].level > 1

Warnable(p) == WarnAt <= severity /\ severity < CancelAt /\ proc[p].level > 1

ReportSum(p) ==
  /\ proc[p].pc = "sum"
  /\ \/ Cancellable(p) /\ Await(p, "cancel")
     \/ ~Cancellable(p) /\ Warnable(p) /\ Await(p, "warn")
     \/ ~Cancellable(p) /\ ~Warnable(p) /\ End(p)
  /\ UNCHANGED <<late, result, answers, awarded, conduct, races>>

\* Zero score for cheating.
CancelWrite(p) ==
  /\ proc[p].pc = "cancel"
  /\ status' = "SUBMITTED"
  /\ score' = 0
  /\ Await(p, "penalty")
  /\ UNCHANGED <<late, passed, published, answers, awarded, conduct, races>>

PenaltyWrite(p) ==
  /\ proc[p].pc = "penalty"
  /\ cancels' = cancels + 1
  /\ End(p)
  /\ UNCHANGED <<late, result, answers, awarded, severity, warnings, races>>

WarnWrite(p) ==
  /\ proc[p].pc = "warn"
  /\ warnings' = warnings + 1
  /\ End(p)
  /\ UNCHANGED <<late, result, answers, awarded, severity, cancels, races>>

-----------------------------------------------------------------------------
(* The environment *)

Deadline ==
  /\ ~late
  /\ late' = TRUE
  /\ UNCHANGED <<result, answers, awarded, conduct, proc, races>>

\* A call the process awaits is rejected, or the server restarts.
Fail(p) ==
  /\ proc[p].pc # "idle"
  /\ End(p)
  /\ UNCHANGED <<late, result, answers, awarded, conduct, races>>

StudentStep(p) ==
  \/ \E i \in Item : SaveRead(p, i)
  \/ SaveWrite(p)
  \/ OpenRead(p, "expire") \/ ExpireWrite(p)

SubmitStep(p) == SubmitRead(p) \/ \E marks \in [Item -> 0..Worth] : SubmitWrite(p, marks)

LecturerStep(p) ==
  \/ \E items \in SUBSET Gradable : GradeRead(p, items)
  \/ \E i \in Code : RegradeRead(p, i)
  \/ \E new \in [Item -> Mark] : GradeTotal(p, new)
  \/ GradeCommit(p)
  \/ PublishRead(p) \/ PublishWrite(p)

RewardStep(p) == SyncRead(p) \/ AwardWrite(p)

MonitorStep(p) ==
  \/ \E label \in {"abort", "force", "extend"} : OpenRead(p, label)
  \/ AbortWrite(p) \/ ForceWrite(p) \/ ExtendWrite(p)

ReportStep(p) ==
  \/ \E level \in 1..3 : ReportRead(p, level)
  \/ ReportLog(p) \/ ReportSum(p)
  \/ CancelWrite(p) \/ PenaltyWrite(p) \/ WarnWrite(p)

JobStep(p) == JobPick(p) \/ JobRefused(p)

Step(p) ==
  \/ StudentStep(p) \/ LecturerStep(p) \/ MonitorStep(p) \/ ReportStep(p)
  \/ JobStep(p) \/ SubmitStep(p) \/ RewardStep(p)

Next ==
  \/ \E p \in Process : Step(p) \/ Fail(p)
  \/ Deadline

Spec == Init /\ [][Next]_vars

\* The job is started again and again, and every handler that has begun goes on.
Fairness ==
  \A p \in Process :
    /\ SF_vars(JobPick(p))
    /\ WF_vars(proc[p].pc # "idle" /\ Step(p))

FairSpec == Spec /\ Fairness

-----------------------------------------------------------------------------
(* Properties *)

(***************************************************************************)
(* The result of an EXAM with short answers is seen by the student only    *)
(* after a lecturer has confirmed every one of them, whatever is submitted *)
(* late, graded again or judged again between the check and the write of   *)
(* publishSessionResults.                                                  *)
(***************************************************************************)
ReviewedBeforePublished == published /\ Type = "EXAM" => Short \subseteq reviewed

(***************************************************************************)
(* The total severity is read after the event was logged, so reports that  *)
(* overlap read each other's events.  All the same no more warnings cost   *)
(* points than fit below the severity that cancels the exam at two each.   *)
(***************************************************************************)
WarningBudget == 2 * warnings < CancelAt

(***************************************************************************)
(* The exam is cancelled, and charged for, without a condition on the row. *)
(* The penalty is charged at most once per handler that can be in flight:  *)
(* who reads the session after the first cancellation charges nothing.     *)
(***************************************************************************)
CancelledAtMost == cancels <= Cardinality(Process)

(***************************************************************************)
(* The score of a graded session is the sum of the marks of its answers,   *)
(* whatever is submitted, aborted or cancelled meanwhile, unless two       *)
(* grading transactions were open at once (each misses the other's marks). *)
(***************************************************************************)
ScoreIsSum == status = "GRADED" /\ "grade" \notin races => score = Total(mark)

(***************************************************************************)
(* docblock of calculateExamCompletionPoints: capped to [5, 20].  The sum  *)
(* of the points awarded for a session, over all its corrections, stays in *)
(* that range unless two corrections were in flight at once.               *)
(***************************************************************************)
AwardInRange == "award" \notin races => awarded \in {0} \cup 5..20

(***************************************************************************)
(* tasks.service.ts: the job submits the sessions that have expired.  It   *)
(* calls submitSession, which refuses every expired session.               *)
(***************************************************************************)
ExpiredIsSubmitted == (<>[]late) => <>(status # "IN_PROGRESS")
=============================================================================
