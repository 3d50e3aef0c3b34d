------------------------------ MODULE MCPractice ------------------------------
(***************************************************************************)
(* The modules about what students solve on their own together: practice   *)
(* sessions and submissions.  They share no state, so a behaviour for TLC  *)
(* is one of one of them ("part"), with the other at rest.  Each part      *)
(* keeps within bounds of its own: practice with two requests at a time,   *)
(* with two sessions of one booking, or with two items; submissions judged *)
(* at the same time, or posted to the judge again and again.               *)
(***************************************************************************)
EXTENDS Integers, FiniteSets

CONSTANTS
  Request, None,
  Cron, Question, Problem, Booking, MaxSessions, MaxItems, Longest, Grace, MaxFailures,
                                                    \* of PracticeSessions
  Student, MaxSubmissions, MaxTests, MaxRetries,    \* of Submissions
  Lone                                              \* the request of the parts with one

VARIABLES part, sessions, points, proc, failures, together,
          tests, total, accepted, rows, made, judgeProc, credited

P == INSTANCE PracticeSessions
J == INSTANCE Submissions WITH Process <- Request, proc <- judgeProc

ASSUME PracticeAssumption == P!ConstantsAssumption
ASSUME SubmissionsAssumption == J!ConstantsAssumption
ASSUME LoneAssumption == Lone \in Request

ofPractice == <<sessions, points, proc, failures, together>>
ofSubmissions == <<tests, total, accepted, rows, made, judgeProc, credited>>
vars == <<part, ofPractice, ofSubmissions>>

\* What each part keeps within.
Requests == IF part \in {"booked", "mixed", "retried"} THEN {Lone} ELSE Request
OneSession == \A s \in P!Session \ {1} : sessions[s].status = "none"
NoProblem == \A s \in P!Session : sessions[s].items \subseteq Question

Overlapping == OneSession /\ NoProblem /\ \A s \in P!Session : sessions[s].booking = None
Booked ==
  /\ NoProblem /\ failures = 0
  /\ \A s \in P!Session : sessions[s].duration <= 1
  /\ \A p \in Request : proc[p].pc # "extend"
Together ==
  /\ tests \in {0, 1, None}
  /\ \A p \in Request : judgeProc[p].pc = "run" => judgeProc[p].attempt <= 1

Within ==
  /\ part = "overlapping" => Overlapping
  /\ part = "booked" => Booked
  /\ part = "mixed" => OneSession
  /\ part = "together" => Together

Practice == {"overlapping", "booked", "mixed"}

Init ==
  /\ part \in Practice \cup {"together", "retried"}
  /\ P!Init /\ J!Init
  /\ part \in Practice => tests = 0
  /\ Within

\* A step of the parts in names.
Does(names, step, rest) == part \in names /\ step /\ UNCHANGED <<part, rest>> /\ Within'

\* The next-state relations of the two modules, for the requests there are.
PracticeNext == P!Job \/ P!Tick \/ (\E p \in Requests : P!Step(p)) \/ P!Fail(Cron)
JudgeNext ==
  \/ \E p \in Requests : J!Work(p) \/ J!Throw(p)
  \/ \E p \in Requests, s \in Student, local \in BOOLEAN : J!Submit(p, s, local)
  \/ \E n \in J!Count : J!AddTests(n)
  \/ J!RemoveTest \/ J!RemoveProblem \/ J!Restart

Next ==
  \/ part \in Practice /\ PracticeNext /\ UNCHANGED <<part, ofSubmissions>> /\ Within'
  \/ part \in {"together", "retried"} /\ JudgeNext /\ UNCHANGED <<part, ofPractice>> /\ Within'

\* The parts whose liveness is checked are fair as their modules say.  As a part
\* lasts, what is fair in one of them may be said together with the others.
Fairness ==
  /\ WF_vars(Does({"mixed"}, P!Job, ofSubmissions) \/ Does({"retried"}, J!Work(Lone), ofPractice))
  /\ WF_vars(Does({"mixed"}, P!Tick, ofSubmissions))

Spec == Init /\ [][Next]_vars /\ Fairness

-----------------------------------------------------------------------------
(* What each module states, as the properties of one run. *)

(* The types of the two modules. *)
TypeOK == P!TypeOK /\ J!TypeOK

(* PracticeSessions: a booking brings points once for each completion that  *)
(* looked for them before the first had written any.                        *)
AttendancePaysOnce == P!AttendancePaysOnce

(* PracticeSessions: the score is the sum of the marks. *)
ScoreIsSum == P!ScoreIsSum

(* PracticeSessions: no session stays open. *)
SessionsEnd == (part = "mixed" /\ P!Running(1)) ~> ~P!Running(1)

(* Submissions: a student is counted once, and for all the tests. *)
SolvedCountsOnce == J!SolvedCountsOnce

(* Submissions: what is begun ends, with a verdict or an error. *)
RequestsEnd == (part = "retried" /\ judgeProc[Lone].pc # "idle") ~> judgeProc[Lone].pc = "idle"
=============================================================================
