# Verification of PretestBooth-BE

Models in TLA+ of the back end of the pretest booths: students book a booth,
log in at its kiosk, are checked in by their face, sit an exam or practise, and
earn or lose points. The back end is a NestJS process over PostgreSQL, read and
written through Prisma at the isolation level READ COMMITTED. It has no queue
and no locks of its own: every request handler and every cron job is a sequence
of `await`s on the database or on a service, and anything may run between two of
them. What makes the system hard is therefore always the same thing: a row is
read, something is awaited, and the row is written from what was read.

Paths below are relative to `src/` of the repository's own tree (so
`bookings/bookings.service.ts` is `src/src/bookings/bookings.service.ts` in
`PROJECT.json`).

## 1. Inventory

| Component | State it keeps | Operations that change state | Talks to |
|---|---|---|---|
| booths (`booths/`) | `Booth` rows: status, OTP hash, expiry, use and attempts, session hash; `BoothStatusLog` | create, update, remove, generateActivationOtp, activateBoothSession, deactivateBoothSession, forceDeactivate, transferBookingsFromIncidentBooth | bookings, exams, practice (rows it closes), mail, realtime |
| bookings (`bookings/`) | `Booking` rows: slot, status, check-in columns | create, cancel, autoCheckInByBooth (not called any more), createWalkInPracticeForBoothLogin, forceCheckoutByMonitor, autoCheckOutExpiredBookings, autoMarkNoShowAndApplyPenalty | booths, points, booth-policies, realtime |
| booking-durations, booth-policies | `BookingDurationOption`, `SystemSetting` | single-row writes by administrators | read by bookings |
| checkin (`checkin/`) | check-in columns of `Booking`, `BookingCheckinAttempt`, threshold setting | verify, updateThreshold | face service, cloudinary |
| auth (`auth/`, `jwt.strategy.ts`) | `UserAuth`: password, refresh token hash, e-mail link, reset code, lock | register, login, refresh, logout, boothLogin, boothLogout, password reset, e-mail verification | booths, bookings, mail |
| tasks (`tasks/`) | none | handleBookingAutoCheckout every minute, handleAccountAutoLock daily, quarterly review sessions | exams, practice, bookings, question review |
| points (`points/`) | `PointTransaction`, `PointAccount` | addTransaction | called by bookings, exams, practice, proctoring |
| exams (`exams/`, the largest part) | `Exam`, `ExamItem`, `ExamSession`, `ExamSessionAnswer`, pretest configuration, publication columns | exam CRUD, startSession, startAutoPretestSession, saveAnswer, submitSession, autoSubmitExpiredSessions, gradeSession, publishSessionResults, force-submit, abort, extend | bookings (active booking), execution, AI grader, points, realtime |
| practice (`practice/`) | `PracticeSession`, answers | createSession, submitAnswer, completeSession, autoCompleteExpiredSessions, extend, abort | bookings, points |
| proctoring (`proctoring/`) | `ProctoringEvent` | reportEvent (may end a session and take points) | exams, practice, points |
| submissions, execution (`submissions/`, `execution/`) | `Submission` rows, problem counters | create, judge, retry | Judge0 or a local runner |
| kyc, face (`kyc/`, `face/`) | `UserKyc`, face embeddings | register, manual review, approve, reject, cancel | python face service, cloudinary |
| questions, question-review, problems, subjects/topics | `Question`, `Choice`, `QuestionReviewSession`, `Problem` | CRUD, import, review workflow, quarterly sessions | mail |
| users, students | `User`, `UserAuth`, profiles | create with a mail and its undo, import, update with the lock, remove | mail |
| lecturers, common/authorization | `Lecturer`, `LecturerRole`, permissions | lock, unlock, update, assign a role, the catalogue of roles | read by every guard |
| realtime, mail, cloudinary, dashboard | none in the database | push, send, upload, read | — |

Interactions that matter. `boothLogin` (auth) validates the kiosk session
(booths), then resets a booking or makes a walk-in one (bookings). `verify`
(checkin) writes the booking's status that the job (tasks, bookings) and the
monitors (bookings, booths) write as well. `startSession` (exams) reads the
student's active booking, which first sweeps expired bookings of everybody. The
job ends exams and practice, then sweeps bookings, then marks no-shows and takes
points. `transferBookingsFromIncidentBooth` (booths) moves booking rows under
everybody's feet.

What makes each component correct:

| Component | Hard part | Properties |
|---|---|---|
| kiosk session | two devices, staff and a transfer write one row | `AttemptBudget`, `SpentInv`, refinement of a lock (`IsALock`) |
| booking lifecycle | stale writes of logins, verifications, monitors and overlapping jobs | `PenaltyPaidFor`, `OnlyMissedBecomeAbsent`, `FallbackEarned`, `EntryWasGranted`, `EveryBookingSettles` |
| making bookings, walk-ins, transfer | check-then-insert without a transaction; a transfer at READ COMMITTED | `BoothsAtMost`, `StudentsAtMost`, `ExamsUndisturbed`, `OnlyLiveBookingsMove` |
| exam results, proctoring | submit, grade, publish, cancel and award from rows read earlier | `ReviewedBeforePublished`, `ScoreIsSum`, `AwardInRange`, `WarningBudget`, `CancelledAtMost` |
| starting exams | check-then-insert, attempts per day, a lock after a pass | `PretestsAreLimited`, `OfficialExamsOnce` |
| making exams | a draw takes several queries of a bank that changes; updates write what they read | `DrawsAreExact`, `ThresholdIsWithin`, `FlagIsTrue` |
| questions, topics, reviews | counted and then deleted, resolved and then inserted | `BankIsConsistent` |
| practice | completed item by item, over an abort, twice; the job | `AttendancePaysOnce`, `ScoreIsSum`, `SessionsEnd` |
| submissions, execution | ACCEPTED written before it is counted; retries, restarts | `SolvedCountsOnce`, `RequestsEnd` |
| accounts and tokens | bcrypt and mail between read and write; accounts deleted and made again | `BarredMeansOut`, `CodeIsSpent` |
| lecturers and roles | ranks read in queries of their own | `TopIsForAdmin` |
| kyc | four writes sent together, verdicts on what was read earlier | `FaceIsVouchedFor`, `RepairedWhenAlone` |

## 2. Plan

Done, in this order:

1. `BoothKiosk`, refining the abstract `KioskLock`.
2. `BookingRules` (pure operators on a slot and a time) and `BookingLifecycle`,
   which composes login, check-in, job and monitors over booking rows.
3. `BookingSlots`, which composes `create`, the walk-in, the transfer and the
   status changes of 2 (as `StatusRead`/`StatusWrite`/`Settle`) over many rows.
4. `ExamResults`, which composes exams, proctoring and points over one session.
5. `ExamAttempts`, `ExamMaking` and `QuestionBank`, checked by `MCBank`.
6. `PracticeSessions` (with points and the job) and `Submissions` (with the
   judge), checked by `MCPractice`.
7. `Accounts`, `LecturerRoles` and `Kyc`, checked by `MCAccounts`.

Every module has its theorems (section 6), in `BoothKioskProofs`,
`BookingLifecycleProofs`, `BookingSlotsProofs`, `ExamResultsProofs`, `BankProofs`
(QuestionBank and ExamAttempts), `MakingProofs` (ExamMaking), `PracticeProofs`
(PracticeSessions and Submissions) and `PeopleProofs` (Accounts, LecturerRoles and
Kyc). Every invariant a run checks is stated by one of them. What could come
next: an abstract specification of the
making of a booking, such as `KioskLock` is for the kiosk, with `BookingSlots` shown to
implement it for one handler at a time.

## 3. Modules and code

Conventions. A handler is a process with a program counter in `proc[p].pc`;
everything between two awaits is one action, named for the handler and for what
it does (`...Read` reads and decides, `...Write` writes). What the handler keeps
from its read is in the record `proc[p]`. An early return or an exception ends
the process. A call that hangs is a process that stays where it is (no action
but `Fail` is forced). A transaction is one action when it is one statement, or
when nobody can see or disturb it halfway; otherwise its statements are actions.
Times are natural numbers and slots are half-open.

### BoothKiosk (with KioskLock)

One booth row and the calls on it: `otp`, `live` and `status` stand for the
activation columns, the session hash and the status; a hash is replaced by the serial
number of the OTP it belongs to.
`OtpRead`/`OtpWrite` is `generateActivationOtp`; `ActivateRead`, `ActivateCharge`
(wrong code), `ActivateClaim` and `ActivateConflict` (the conditional update and
its count of 0) are `activateBoothSession`; `LogoutRead`/`LogoutWrite` is
`validateBoothSessionToken` with `deactivateBoothSession`; `ForceRead`/`ForceWrite`
the forced logout; `UpdateRead`/`UpdateWrite` the status change of `update`, which
ends the session; `Incident` the write of a transfer to this row. `KioskLock` is
what the kiosk promises: a lock that staff may open and that is taken only with
an OTP not used before.

### BookingRules, BookingLifecycle

`BookingRules` has the conditions of the code on a slot: `InCheckInWindow`,
`Distance`, `Expired`, `NoShowDue`, `MayStudentCancel`. `BookingLifecycle` keeps
`status`, `checkin` (the check-in result), `tries` (failed attempts counted) and
`penalties` per booking. `LoginRead`/`LoginWrite` choose and reset the booking as
`getPendingCheckInByBooth` and `boothLogin` do: a login puts the booking back to
CONFIRM and leaves the check-in to `verify`. `VerifyRead`, `VerifyAllow` and
`VerifyDeny` are `verify`, with the result of the face comparison left open;
`CancelRead/Write`, `CheckoutRead/Write` the student's and the monitor's
handlers; `SweepRead/Write`, `NoShowRead`, `MarkAbsent`, `SkipMarked`,
`FindPenalty`, `ChargePenalty` and `Continue` the minutely job, candidate by
candidate; `WalkInMark` the same marking at the start of a walk-in. `Fail` is a
rejected promise at any step, which also ends the job's loop.

### BookingSlots

Many booking rows, appended by `CreateInsert` and `WalkInInsert`. `create` is
eight steps in the order of its queries: `CreateGap` (policy, date, the student's
other sessions), `CreateBooth`, `CreateSlot`, `CreateCount`, `CreateCapacity`,
`CreateFull` (refusal), `CreateInsert`. `WalkIn...` is the path of `boothLogin`
without a booking; `WalkInWindow` takes the two queries of
`getPendingCheckInByBooth` on bookings in their window as one read. `Transfer...`
is `transferBookingsFromIncidentBooth`: its statements see what others have
committed, its own updates become visible at `TransferCommit`. `StatusRead` and
`StatusWrite` stand for every handler of `BookingLifecycle` that writes a status
from an earlier read, and `Settle` for the job. Requests are enumerated by the
constant `Requested`; opening hours and durations restrict which requests there
are and are not modelled. `dryRun` writes nothing and is left out.

### ExamResults

One exam session: `status`, `score`, `passed` and `published` are its columns,
`answered`, `mark` and `reviewed` its answers, `awarded` the sum of its
EXAM_COMPLETION rows, `severity` the sum of its proctoring events, `warnings` and
`cancels` the penalties charged. What is answered and how it is graded is
abstracted to a mark per item (whole points; the code rounds to hundredths).
`SubmitRead`/`SubmitWrite` is `submitSession` before and after the grading;
`GradeRead`, `GradeTotal`, `GradeCommit` is `gradeSession`, whose transaction
locks the answers it updates and totals the others as committed;
`RegradeRead` enters the same steps for `regradeProblemItem`, which removes the
review; `SyncRead`/`AwardWrite` is `syncExamCompletionPoints`; `PublishRead/Write`
`publishSessionResults`; `OpenRead` with `AbortWrite`, `ForceWrite`, `ExtendWrite`
the monitors' handlers and with `ExpireWrite` the start of another session, which
first ends an expired one; `ReportRead`, `ReportLog`, `ReportSum`, `CancelWrite`,
`PenaltyWrite`, `WarnWrite` are `reportEvent`. `forceSubmitSessionByMonitor` calls
`submitSession` with an owner that its own query does not select, so that the call
always throws and the fallback always runs: `ForceWrite`. The deadline passes at
any time (`Deadline`), and an extension writes any deadline.

Submitting (`SubmitRead`, `SubmitWrite`) grades item by item in the code, each item
a call of the judge or of the AI grader; what the grading finds is one choice
here (`SubmitStep`), since the answers it grades are those `SubmitRead` took.

### ExamAttempts

The `ExamSession` rows of one student, with the pretest configuration and the
student's booking. `PretestBegin`, `FindPretest`, `ExpirePretest`,
`CountPretests`, `AssignFromPool`/`AssignFromBank`, `InsertPretest` are the queries of
`startAutoPretestSession` in their order; `StartBegin`, `FindLinked`,
`FindLatest`, `EndWrite`, `InsertSession` those of `startSession` by a student.
`ConfigRead`/`ConfigWrite` is `upsertPretestConfig`. What `ExamResults` says of a
session is left to chance: `EndSession`, `Grade`, `Publish`, `Deadline`.

### ExamMaking

`CreateBegin` to `CreateWrite` is `create` with `createRandom` and
`createManual`: `CountLevels` and `RankLevels` the two queries of a draw by difficulty,
`DrawByRule` one rule after the other, `DrawMore` what FLEXIBLE makes up from
elsewhere, `DrawProblems` the problems, `CreateByHand` the questions named. A
question is its class, that is what a filter tells apart. `Publish` is
`buildPublicationState`, `Republish` `resolvePublicationUpdate`,
`SyncPublication` the schedule, `UpdateRead`/`UpdateWrite` and
`RemoveRead`/`RemoveWrite` the rest. The bank changes between all of these
(`ChangeQuestion`, `ChangeProblem`). Requests are those the DTOs
let pass; the legacy field `isPublished` amounts to a visibility with or without
`publishNow` (`resolvePublicationUpdate`) and is not enumerated on its own.

### QuestionBank

Subjects, topics, questions and reviews of one quarter; every operation is a
lookup (`...Read`) and a write (`...Write`) that the foreign keys may reject.
`MayDeleteSubject` is RESTRICT, `DropTopics` CASCADE and SET NULL, `KeysHold` what an
insert needs. An import is rows of `create` one after the other, each
resolved to ids before it is inserted: the keys reject what has gone by then.

### PracticeSessions

Sessions of one student with their items, answers and marks, and the points for
attendance by booking. `CompleteRead`, `Grade` (an item), `CompleteWrite`,
`Attendance`, `Award` is `completeSession`, by a request (`Complete`) or by the job
(`JobRead`, `JobNext`, `JobEnd`). `Picks` is the choice of `createSession`, `Worth` and
`CompletionPoints` its arithmetic (integers suffice: the code rounds to whole points).
A failed call (`Fail`) leaves the marks written so far and, in the job, only that
session behind.

### Submissions

`Submit` (the row PENDING), `FetchTests`, `RunTest` per test, `RunsEnd`, `WriteVerdict`,
`CountOthers`, `UpdateStats` is `create`; `JudgeFails`/`Retry`/`JudgeRefuses` the
judge with `JUDGE0_EXEC_RETRIES`; `Throw` and `WriteError` the catch block that
writes RUNTIME_ERROR whatever has been written; `Restart` forgets all requests and
leaves their rows. A problem's tests come and go and the problem may be deleted
with its submissions.

### Accounts

One e-mail address: the account it belongs to (`id`), and the `UserAuth` row. Each handler
looks the account up, waits for bcrypt or the mail server and then updates by
the id it found; `Reaches` is the update's row being there. An account may be
deleted and made again meanwhile (`Remove`, `CreateUndo`, `ids`). `MayLogin` is
`validateUserCredentials`; `AutoLock` the daily job, `LoginOverdue`/`LoginLock` the same
at a login. The token's
contents are left out: bcrypt compares 72 bytes, which all refresh tokens of an
account share, so that `session` says whether they are accepted at all.

### LecturerRoles

Who manages whom: `Ask` reads permissions, the target and the new role, `Check` the requester's
rank, and the write follows without a condition; for lock, unlock, update and
assign alike. `Save` and `RemoveRead`/`RemoveWrite` are ADMIN's catalogue of roles. `Orderly`
assumes of ADMIN what the statement needs: the highest role stays the highest,
and some role stays active.

### Kyc

One student's `UserKyc`, `Student` and `UserFaceEmbedding` rows. `RegisterEmbed`,
`RegisterUpload` and then, in any order and each failing alone,
`StudentWrite` (two upserts), `EmbeddingWrite`, `KycWrite` are `register`;
`RequestRead/Write`, `ApproveRead/Write`, `RejectRead/Write`, `CancelRead/Write` and
`CancelCard` the review. A photograph is the attempt that brought it.

### MC modules

`MCAccounts`, `MCBank` and `MCPractice` hold several instances of modules that share
no state. The variable `part` says which one a behaviour
is about; the others rest in their initial state, so the states add up and do not
multiply. They name no value: the constants are those of their modules, given in
the .cfg, their assumptions are ASSUMEs of the MC module, and the proofs are about
the same instances that are run. Where two modules have a constant of one name and
different sets are to be given (`Exam` and `Question` of `ExamMaking`), it is `Paper` and
`Drawable` here. A part that is run with smaller values is a restriction on the states of its
module (`Within`), so that whatever is proved of the module holds of the part:
`PeopleCompose`, `PracticeComposes` and `BankComposes` prove that a behaviour that is run is one
of each module. `MCResults` cuts `ExamResults` into two parts in the same way.

## 4. Runs

| Run | Instance | Shows |
|---|---|---|
| `kiosk_lock` | two devices, two members of staff, 2 attempts per OTP | types, attempt budget, used means spent, the kiosk refines the lock |
| `lifecycle_races` | one EXAM, two requests, one job | penalties are paid for, fallback is earned, only missed bookings become ABSENT |
| `lifecycle_settles` | EXAM then PRACTICE at one booth, one request, one job | entry is granted; under fairness every booking settles |
| `slots_overlap` | two students, two handlers, one slot, a transfer | a booth is booked at most as often as there are handlers; only live bookings move |
| `slots_exams` | two students, two booths, three requests, a walk-in, a transfer, a clock | one handler at a time: no walk-in disturbs an EXAM, a student's bookings keep their gap |
| `exam_results` | a short answer and a program, two handlers: with reports, where only the short answer earns points, and without | nothing unreviewed is published; warnings, cancellation and awards stay within their limits; with two items the score is the sum of the marks |
| `accounts` | one address, two requests, three codes, two accounts in a row; three lecturers, two roles, one request; one student, two requests, two registrations | locked means out, a code is spent, the highest role is ADMIN's, the booth's face is vouched for and the rows are repaired |
| `bank` | two subjects, a topic, a question, two requests; draws of two questions in two classes by numbers and by two rules; one exam updated by two requests; pretests of one student on two days, from a pool, by two requests | references hold, a draw is exact, thresholds and flags survive races, attempts are limited |
| `practice` | one item, two requests and the job; two sessions of one booking; two items with a failing call; submissions of one student judged by two requests, or by one with two tests and two retries | points and score but for the named races, a student is counted once, no session and no request stays open |
| `present_but_charged`, `booth_booked_twice`, `expired_never_submitted` | see section 7 | what the code does differently from what it says |

Bounds, and why they are enough. A unit of time is a quarter of an hour (or
stands only for an order): the check-in window, the grace period and the gap are
one unit each, as the code's defaults are 15 minutes each; `Horizon` lets the
clock pass the end of every slot. `MaxMarks`, `MaxFailures`, `MaxRows`,
`MaxSeverity` and `MaxAwarded` bound counters that nothing in the code bounds,
each one past the point where the properties could change: one more marking than
a penalty, one more failure than `MaxFailed`, one more row than the slot holds,
reports until the severity that cancels is reached (one may still come at it,
beside one in flight), and the largest award. Two handlers are the smallest number that races; the
theorems below remove that bound for every invariant. The thresholds 5 and 10 of
proctoring are scaled to 2 and 5 and the attempt limits to 1 or 2. `ExamsUndisturbed`
speaks of walk-ins that end on their date only (`EndsThatDay`), because `create` filters
by date and misses one made shortly before midnight UTC (7:00 in Vietnam).

In `accounts`, `MaxIds` of 2 lets an account be deleted and made again under a
request that found the first; three codes are one more than link and reset
code; two registrations let one overlap the review of the other. `LecturerRoles`
runs with one request at a time: it has three reads and a write, and the catalogue
and ADMIN change everything between them. In `bank`, one question of two classes is
enough for rules to compete; there is one exam, made by hand and updated by two
requests at once, or drawn by one, and a draw ends with its exam. Pretests are run three times: on two days
by one request at a time (`days`: a count misses yesterday's), from a pool and
beside the list of exams, where a third session is of an official exam only (`listed`), and by two
requests at once (`racing`). `MaxSessions` of 3 is two more than the attempts allowed. In `practice`, a part with two
requests has one session, the part with two sessions of a booking one request and
no failures, and the part with a program one request and one session; `Longest` of 2 lets
one extension be lost to another, `Grace` is 1, and `MaxFailures` of 1 is one
completion that stops half-way and is begun again. `MaxRetries` is 2, of which two
requests at once use one.

Deadlock is checked but in `bank` and `practice`, whose bounded instances do end
(no more sessions or submissions to make).

## 5. Fairness

Safety is checked without fairness. `EveryBookingSettles` assumes that the clock
advances, that the job is started again whenever it is idle (the cron expression
EVERY_MINUTE) and that its awaits end; strong fairness on `SweepWrite`,
`NoShowRead` and `MarkAbsent` says that a write the job comes to again and again is
not rejected every time, as a job that fails every minute settles nothing. It
assumes nothing of the requests, which may hang for ever. `ExpiredIsSubmitted` assumes in addition that
handlers that have begun go on and that the job picks the session again and
again (strong fairness, since a session may be busy in between): the violation is
therefore not one of a job that stops.

`SessionsEnd` assumes the job's next step (`Job`: it is started again every minute, and its
awaits end) and that time passes; requests may hang, calls fail as often as
`MaxFailures`, and extensions end at 720 minutes (`Longest`). `RequestsEnd` assumes
that what a request awaits returns or throws: the judge's calls have a timeout and
the local runs are killed. It does not assume that the judge ever answers, and a
restart ends the request as well. In `MCPractice` both are one weak fairness
condition, because a part lasts for the whole behaviour and is never disabled by
another.

## 6. Proofs

`tlapm` checks every theorem for all values of the constants that satisfy the
named assumptions of the modules (the `...Assumption`s, which TLC evaluates on the runs).
Four theorems have a hypothesis of their own: `EntryIsGranted` that there is one
request at a time, `SlotsBoothsAtMost` and `SlotsStudentsAtMost` that requests are
dated by their times (`AllWellDated`), and `SlotsExamsUndisturbed` both.

| Theorem | States | Argument |
|---|---|---|
| `KioskTypes`, `OtpAttemptBudget`, `UsedOtpsAreSpent` | types; attempts on one OTP ≤ limit − 1 + devices; `used` exactly when it opened a session | a budget invariant counts attempts written plus requests that have passed the check; `SpentInv` relates the row, the history and what devices hold |
| `KioskIsALock` | every step is a step of `KioskLock` or a stutter | from `SpentInv`: the claim is conditional on an unused OTP and a closed session |
| `LifecycleTypes`, `PenaltiesArePaidFor`, `AbsentMeansMissed`, `FallbackIsEarned`, `EntryIsGranted` | the properties of `lifecycle_races` and `EntryWasGranted` | penalties charged plus processes that still owe one ≤ markings; every process past a guard keeps the fact the guard read, if nobody can take it back; for `EntryWasGranted`: at most one request is between its read and its write |
| `SlotsTypes`, `SlotsBoothsAtMost`, `SlotsStudentsAtMost` | at every instant, a booth (a student, gap included) has at most as many live bookings as there are handlers | `SlotInv`, below |
| `SlotsOnlyLiveMove` | a transfer moves live bookings only and keeps their status | `MovesLive`: who has updated a row holds its lock, so until the commit nobody else writes the rows moved, and two transfers share none |
| `SlotsExamsUndisturbed` | for one handler at a time: no walk-in that ends on its date overlaps an EXAM of its booth | `ExamInv`, below |
| `ResultTypes` | the session and what every handler has read keep their types | each action by the fields of its record |
| `PublishedIsReviewed` | no EXAM is published with a short answer unreviewed | `ReviewInv`: a publication under way has seen the reviews, and a step that removes a review removes a program's |
| `ScoresAreSums` | a graded score is the sum of the marks unless gradings raced | `SumInv`: the one open transaction has the total of the marks as they are, and who submits waits for its locks |
| `AwardsStayInRange` | the points awarded are 0 or 5 to 20 unless corrections raced | `AwardInv`: awarded plus the pending difference is a target, which `PointsType` bounds |
| `WarningsFitBudget` | warnings number less than half the severity that cancels | `WarningInv`: warnings charged and owed, and reports that may still warn, are each paid for by two points of severity |
| `CancelledIsBounded` | the cancellation is charged at most once per handler | `CancelInv`: charges and reports that may still charge are at most the handlers; after the first nobody joins them |
| `PeopleAreTyped`, `PracticeIsTyped`, `BankTypesHold` | types of the seven modules behind `accounts`, `practice` and `bank` | each action by the fields of its record |
| `BarredStayOut`, `CodesAreSpent` | logins past a lock, and passwords set by one code, are at most as many as requests at a time | `BarredInv`, `SpentInv`: those written plus the requests in flight that may still write one are at most the requests; none joins behind a lock or with a spent code |
| `TopRoleIsForAdmin` | nobody but ADMIN gives the highest role, or moves or locks its first holder | `TopInv`: `ChecksKnowTop` and `WritesSpareTop`, a request that has passed its checks holds no write that does so, though ranks have changed since |
| `FacesAreVouchedFor` | the embedding on record is of a photograph that matched the card or was on record when a review was asked for | `FaceInv`: so are the photographs that requests carry to their write, and a pending review is of such a one |
| `RowsAreRepaired` | the three rows agree after a request that was alone from beginning to end | `RepairInv`: what the request that is alone has written so far and has still to write amounts to rows that agree |
| `PointsAreBounded` | points for a booking ≤ 10 for each process | `PointsInv`: points written plus ten for everyone about to write; who joins has found none |
| `ScoresAddUp` | the score of completed practice is the sum of its marks unless two gradings overlapped | `ScoreInv`: the total of the only grading is the sum of the items it has done; `Holds`: they are answered items of the session |
| `SolvedOnce` | a student is counted once for a problem, with a submission that passed all tests | `SolvedInv`: who has been counted has an accepted row that no request touches any more, who is about to be has not been and is the only one; `RunOk`: a verdict under way is ACCEPTED only while every test run has passed |
| `TheBankIsConsistent` | what refers to a topic, subject or question finds it, and topics fit their subjects | `BankInv`: what a request has resolved still fits unless it has gone, and then the keys reject the write (`Resolved`) |
| `PretestsStayLimited` | pretests of a day ≤ limit + requests − 1; beyond a published pass ≤ requests | `LimitInv`: the pretests of the day plus the requests that have counted and will start one (`Pending`); `PassInv`: those started beyond a pass plus the requests that may do so (`Locking`) |
| `ExamsAreTakenOnce` | an official exam is taken from the list at most once per request at a time | `OnceInv`: sessions of it (`Listed`) plus requests about to insert one (`Coming`) |
| `DrawsStayExact`, `ThresholdsStayWithin`, `FlagStaysTrue` | a STRICT exam has what was asked for; thresholds within the points; `isPublished` agrees with the dates | `MakingInv`, below |
| `PeopleCompose`, `PracticeComposes`, `BankComposes` | a behaviour of an MC module is one of each of its modules | a step of one leaves the variables of the others |

`ScoreIsSum` and `AwardInRange` of `ExamResults` hold but for a race, which the history variable
`races` records: two grading transactions open at once, or two corrections of the
award in flight. Without these the properties are false in the code; the theorems say
that nothing else breaks them. All invariants of `ExamResults` rest on `TypeOK` alone.

The properties of one booking row are not inductive: a handler that passed a
check and has not yet written is as dangerous as a row. `SlotInv` therefore
counts both, for each booth or student and each instant: the rows that cover it
and are live or may be made live again by a stale write, plus the handlers past
their check that are about to insert or move a booking there (`Counts`: `Claims`
and `Busy` for a booth, `Holds` and `Asking` for a student), never exceed the
number of handlers. A handler enters the count only when it finds no live row
there; then every row counted is one some other handler is about to revive, and
rows and handlers counted are matched one to one with handlers (`AllPending`). `RowsDated`
(a row's date is the day of its start) and `AllWellDated` (the same of the
requests) are needed since `create` compares only bookings of one date: without
the assumption the theorem is false (section 7). `MovesApart` says that the moves of one transfer do not overlap.

The bound is the true one: with as many handlers there are as many bookings of
one slot (`booth_booked_twice`).

`ExamInv` is needed because `ExamsUndisturbed` alone does not survive the marking of a missed EXAM: the
walk-in marks one EXAM that has begun, and then goes ahead even when the next one has
begun as well (`WalkInAfter`). That there is none follows from
a stronger fact about all rows: nothing that is live, or that the handler in
flight may make live again, overlaps an EXAM of its booth (`ExamsApart`), whatever
kind it is. `Clear` says what the handler has established so far and is still true when it
writes: the slot `create` found free, the bookings a walk-in has ruled out, the booths a transfer
moves to. Between its queries only the job and the clock act (`Fades`), and these
only take bookings away. Two handlers break the property as they break `BoothsAtMost`;
hence `Cardinality(Process) = 1`. `InDay` is the condition that the code needs: a
booking that runs past midnight is invisible to `create` on the day it ends.

`MakingInv` says of a draw under way what it has so far: the questions are distinct and
counted (`OneEach`), and a STRICT draw has as many as the rules done ask for. The
step that needs an argument is the draw by difficulty. Levels are counted in one query and
ranked in another over a bank that has changed, so the ranked sets may be
smaller than counted; no level gives more than was asked of it, and the code compares
only the sum. If the sum is what was asked, every level is full (`LevelsAreFull`, by
counting). Of a row it says that threshold, order and counts fit each other (`RowOk`), which an update
preserves although it checks an older row, since nothing changes the items of an exam; and
that the flag fits the dates (`TrueAt`).

Only model-checked: `EveryBookingSettles`, `SessionsEnd` and `RequestsEnd` (liveness under fairness and ENABLED are
out of the prover's reach). `EntryWasGranted` is checked
with one request and one job and proved for any number of jobs while requests do not
overlap. No module declares a RECURSIVE operator, and nothing is proved by
induction over data, which the provers cannot do: sums are over sets of pairs, so that
a mark is a number of elements and facts about cardinality suffice.

## 7. Findings

Each is a run that TLC finds violated by what the code does, against words of the
repository (quoted in `PROJECT.json`).

- `expired_never_submitted`: the job submits expired sessions by calling
  `submitSession`, which refuses expired sessions; they stay IN_PROGRESS. A session
  is submitted by the job only if it is extended between the job's two reads.
- `present_but_charged`: a student who is checked in and logs in again is set back to
  CONFIRM and charged for missing the session unless verified again in time.
- `booth_booked_twice`: two overlapping requests for one slot are both accepted.

Other differences, seen in the code while modelling it; the models follow the code.

- The conflict query of `create` compares only bookings of the same `date`
  (`bookings/bookings.service.ts:267-274`), and nothing compares `date` with the
  times: a request under another date escapes the "15 min gap between consecutive
  sessions" of the docblock (`:140`). `AllWellDated` assumes that clients send both alike.
- `create` counts every booking that overlaps the request against the number of booths
  (`:310`), so two bookings that follow one another at one booth count as two, and a
  free booth may be refused with "all booths are booked" (`:321`).
- A walk-in looks only for EXAMs; a PRACTICE booking of somebody else does not keep it
  out, and one made shortly before midnight UTC is missed by `create`.
- `docs/AUTH_API.md:285` says that the kiosk login checks the student in; the code
  leaves that to the face verification. `docs/AUTH_API.md:275` says that a booth in
  MAINTENANCE_PENDING takes no check-in; `verify` looks at the booth before it compares
  the face and not after.
- Of two submissions of a student accepted at once neither may be counted as the first;
  a problem without tests accepts everything; an error after ACCEPTED writes
  RUNTIME_ERROR over it; a restart leaves PENDING rows for ever; Judge0's own time limit
  is stored as RUNTIME_ERROR.
- A FLEXIBLE exam may come out empty, although the DTO asks for an item.
- An update of a question with a subject alone leaves a topic of another subject.
- One question deleted at the wrong moment makes the generation of a quarter's
  reviews fail as a whole. Two toggles at once are one.
- Points for practice are lost for good when the completion fails after COMPLETED; a
  completion writes COMPLETED over an abort. A practice session whose student is deleted is never
  ended by the job.
- With all roles inactive, a LECTURER_ADMIN without a role manages everybody.
  `updateLecturerPermissions` writes the user's id where the schema wants the
  lecturer's (`users/users.service.ts:1446-1519`).
- A start of an exam ends an expired session it read before, whatever has become of it;
  answers saved while a submission is judged are overwritten by those it read.

## 8. Not modelled, and why

- Calls to external services (face service, Judge0, AI grader, mail, cloudinary): their
  outcome is a choice, or a failure, in the models of their callers. The face embedding
  service itself is stateless arithmetic.
- Permissions before a handler, other than those of lecturers over lecturers: the
  models start where a handler has been allowed.
- `createLecturer`, a changed e-mail address, profiles, `manualAdjust` of points,
  `importProblems`, names of subjects and topics, choices of questions, values of policies and
  durations, names of booths: single rows written without an interleaving that a property
  could be about.
- Messages, mails, realtime pushes and audit rows, written after the state they report;
  listings, statistics and the dashboard, which read only.
- Parsing of spreadsheets, the drivers around submitted programs, seeds and shuffles:
  computations on data from which the properties are abstracted.
- Migrations and seeds, which run once; `autoCheckInByBooth` and the dual-write service,
  which nothing calls.
