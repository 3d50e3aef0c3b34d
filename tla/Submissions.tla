------------------------------ MODULE Submissions ------------------------------
(***************************************************************************)
(* Solutions to a problem are submitted, run against its test cases and    *)
(* counted (src/submissions, src/execution, src/problems).                 *)
(*                                                                         *)
(* A submission is written PENDING, judged test by test, written again     *)
(* with its verdict and then counted: totalSubmissions always,             *)
(* acceptedSubmissions for the first accepted one of a student.  Whatever  *)
(* is thrown on the way writes RUNTIME_ERROR over it.  JavaScript runs in  *)
(* a child of the server, the rest is posted to Judge0, again when that    *)
(* fails.                                                                  *)
(*                                                                         *)
(* A test is what became of it; sources, inputs, outputs and times are     *)
(* left out, and so are runs that are not submitted, which change nothing. *)
(***************************************************************************)
EXTENDS Integers, FiniteSets

CONSTANTS
  Student,
  Process,         \* requests handled at the same time
  MaxSubmissions,  \* bound: submissions, numbered as they are made
  MaxTests,        \* bound: test cases of the problem
  MaxRetries,      \* JUDGE0_EXEC_RETRIES
  None

VARIABLES
  tests,     \* number of test cases of the problem, None when it is deleted
  total,     \* Problem.totalSubmissions
  accepted,  \* Problem.acceptedSubmissions
  rows,      \* the Submission rows
  made,      \* number of submissions made so far
  proc,      \* where each request is and what it has read
  credited   \* history: how often each student was counted as having solved it

problem == <<tests, total, accepted>>
vars == <<problem, rows, made, proc, credited>>

Id == 1..MaxSubmissions
Verdict == {"ACCEPTED", "WRONG_ANSWER", "COMPILE_ERROR", "RUNTIME_ERROR", "TIME_LIMIT_EXCEEDED"}
Outcome == {"right", "wrong", "uncompiled", "crashed", "killed"}
Count == 0..MaxTests

Idle == [pc |-> "idle"]
Row == [student : Student, status : Verdict \cup {"PENDING"}, passed : Count, tests : Count]
Result == [verdict : Verdict, passed : Count, tests : Count]

\* What the constants are; the instances assume it.  Null is no number and no row.
ConstantsAssumption ==
  /\ {MaxSubmissions, MaxTests, MaxRetries} \subseteq Nat
  /\ IsFiniteSet(Process)
  /\ None \notin Count /\ None \notin Row

Local ==
  {Idle}
  \cup [pc : {"fetch"}, id : Id, local : BOOLEAN]
  \cup [pc : {"run"}, id : Id, local : BOOLEAN, ran : Count, result : Result, attempt : 0..MaxRetries, waits : BOOLEAN]
  \cup [pc : {"write"}, id : Id, result : Result]
  \cup [pc : {"count", "first", "again", "catch"}, id : Id]

TypeOK ==
  /\ tests \in Count \cup {None}
  /\ total \in 0..MaxSubmissions /\ accepted \in 0..MaxSubmissions
  /\ made \in 0..MaxSubmissions /\ rows \in [1..made -> Row \cup {None}]
  /\ proc \in [Process -> Local]
  /\ credited \in [Student -> Nat]

Init ==
  /\ tests \in Count /\ total = 0 /\ accepted = 0
  /\ rows = [i \in 1..0 |-> None] /\ made = 0
  /\ proc = [p \in Process |-> Idle]
  /\ credited = [s \in Student |-> 0]

Goto(p, next) == proc' = [proc EXCEPT ![p] = next]
End(p) == Goto(p, Idle)

\* What a request that throws does next.
Catch(p) == Goto(p, [pc |-> "catch", id |-> proc[p].id])
Reads == UNCHANGED <<problem, rows, made, credited>>

-----------------------------------------------------------------------------
(* SubmissionsService.create and ExecutionService *)

Submit(p, s, local) ==
  /\ proc[p].pc = "idle" /\ made < MaxSubmissions /\ tests # None
  /\ made' = made + 1
  /\ rows' = [i \in 1..made' |-> IF i = made'
                THEN [student |-> s, status |-> "PENDING", passed |-> 0, tests |-> 0]
                ELSE rows[i]]
  /\ Goto(p, [pc |-> "fetch", id |-> made', local |-> local])
  /\ UNCHANGED <<problem, credited>>

\* The problem is read again, with the test cases to run.
FetchTests(p) ==
  /\ proc[p].pc = "fetch"
  /\ IF tests = None THEN Catch(p)
     ELSE Goto(p, [pc |-> "run", id |-> proc[p].id, local |-> proc[p].local, ran |-> 0,
                   result |-> [verdict |-> "ACCEPTED", passed |-> 0, tests |-> tests],
                   attempt |-> 0, waits |-> FALSE])
  /\ Reads

\* The verdict is that of the first test that fails.
After(result, outcome) ==
  [result EXCEPT !.passed = IF outcome = "right" THEN @ + 1 ELSE @,
                 !.verdict =
     IF outcome = "right" THEN @
     ELSE IF outcome = "uncompiled" THEN "COMPILE_ERROR"
     ELSE IF @ # "ACCEPTED" THEN @
     ELSE CASE outcome = "wrong" -> "WRONG_ANSWER"
            [] outcome = "crashed" -> "RUNTIME_ERROR"
            [] outcome = "killed" -> "TIME_LIMIT_EXCEEDED"]

Running(p) ==
  proc[p].pc = "run" /\ proc[p].ran < proc[p].result.tests /\ ~proc[p].waits

\* The runs of one submission end with one that does not compile.
RunTest(p, outcome) ==
  LET result == After(proc[p].result, outcome) IN
  /\ Running(p)
  /\ outcome = "uncompiled" => ~proc[p].local
  /\ IF outcome = "uncompiled"
       THEN Goto(p, [pc |-> "write", id |-> proc[p].id, result |-> result])
       ELSE Goto(p, [proc[p] EXCEPT !.ran = @ + 1, !.result = result, !.attempt = 0])
  /\ Reads

\* Mutant of Attempted: the attempts are not counted.
AttemptedBefore(attempt) == attempt

Attempted(attempt) == attempt + 1

\* No answer, a late one, or one that says the fault is the judge's.
JudgeFails(p) ==
  /\ Running(p) /\ ~proc[p].local
  /\ IF proc[p].attempt = MaxRetries THEN Catch(p)
     ELSE Goto(p, [proc[p] EXCEPT !.waits = TRUE])
  /\ Reads

\* After a while the program is posted again.
Retry(p) ==
  /\ proc[p].pc = "run" /\ proc[p].waits
  /\ Goto(p, [proc[p] EXCEPT !.waits = FALSE, !.attempt = Attempted(@)])
  /\ Reads

JudgeRefuses(p) == Running(p) /\ ~proc[p].local /\ Catch(p) /\ Reads

\* Without a test, too, all have passed.
Judged(result) ==
  IF result.passed = result.tests THEN [result EXCEPT !.verdict = "ACCEPTED"] ELSE result

RunsEnd(p) ==
  /\ proc[p].pc = "run" /\ proc[p].ran = proc[p].result.tests
  /\ Goto(p, [pc |-> "write", id |-> proc[p].id, result |-> Judged(proc[p].result)])
  /\ Reads

\* The row is there, unless the problem was deleted with all its submissions.
Alive(i) == i \in 1..made /\ rows[i] # None

WriteVerdict(p) ==
  LET i == proc[p].id
      result == proc[p].result
  IN
  /\ proc[p].pc = "write"
  /\ IF Alive(i)
       THEN /\ rows' = [rows EXCEPT ![i].status = result.verdict, ![i].passed = result.passed,
                                    ![i].tests = result.tests]
            /\ Goto(p, [pc |-> IF result.verdict = "ACCEPTED" THEN "count" ELSE "again", id |-> i])
       ELSE Catch(p) /\ rows' = rows
  /\ UNCHANGED <<problem, made, credited>>

OfStudent(i, j) == Alive(j) /\ rows[j].student = rows[i].student /\ rows[j].status = "ACCEPTED"

\* Mutant of Others: "previous" ones are those made before.
Earlier(i) == {j \in 1..(i - 1) : Alive(i) /\ OfStudent(i, j)}

Others(i) == {j \in (1..made) \ {i} : Alive(i) /\ OfStudent(i, j)}

CountOthers(p) ==
  LET i == proc[p].id IN
  /\ proc[p].pc = "count"
  /\ Goto(p, [pc |-> IF Others(i) = {} THEN "first" ELSE "again", id |-> i])
  /\ Reads

\* Both counters are incremented in one statement.
UpdateStats(p) ==
  LET i == proc[p].id IN
  /\ proc[p].pc \in {"first", "again"}
  /\ IF tests = None THEN Catch(p) /\ UNCHANGED <<total, accepted, credited>>
     ELSE /\ End(p)
          /\ total' = total + 1
          /\ IF proc[p].pc = "first"
               THEN /\ accepted' = accepted + 1
                    /\ credited' = [credited EXCEPT ![rows[i].student] = @ + 1]
               ELSE UNCHANGED <<accepted, credited>>
  /\ UNCHANGED <<tests, rows, made>>

\* The tests that were passed stay written.
WriteError(p) ==
  LET i == proc[p].id IN
  /\ proc[p].pc = "catch"
  /\ End(p)
  /\ rows' = IF Alive(i) THEN [rows EXCEPT ![i].status = "RUNTIME_ERROR"] ELSE rows
  /\ UNCHANGED <<problem, made, credited>>

-----------------------------------------------------------------------------
(* ProblemsService: test cases come and go, and so does the problem *)

AddTests(n) ==
  /\ tests # None /\ n > tests /\ tests' = n
  /\ UNCHANGED <<total, accepted, rows, made, proc, credited>>

RemoveTest ==
  /\ tests # None /\ tests > 0 /\ tests' = tests - 1
  /\ UNCHANGED <<total, accepted, rows, made, proc, credited>>

\* Test cases and submissions go with the problem.
RemoveProblem ==
  /\ tests # None /\ tests' = None
  /\ rows' = [i \in 1..made |-> None]
  /\ total' = 0 /\ accepted' = 0 /\ credited' = [s \in Student |-> 0]
  /\ UNCHANGED <<made, proc>>

\* An await throws; the server restarts.
Throw(p) == proc[p].pc \notin {"idle", "catch"} /\ Catch(p) /\ Reads
Restart == proc' = [p \in Process |-> Idle] /\ Reads

Work(p) ==
  \/ FetchTests(p) \/ RunsEnd(p) \/ JudgeFails(p) \/ Retry(p) \/ JudgeRefuses(p)
  \/ \E outcome \in Outcome : RunTest(p, outcome)
  \/ WriteVerdict(p) \/ CountOthers(p) \/ UpdateStats(p) \/ WriteError(p)

Next ==
  \/ \E p \in Process : Work(p) \/ Throw(p)
  \/ \E p \in Process, s \in Student, local \in BOOLEAN : Submit(p, s, local)
  \/ \E n \in Count : AddTests(n)
  \/ RemoveTest \/ RemoveProblem
  \/ Restart

\* Awaits return or throw; the judge may fail for ever.
Fairness == \A p \in Process : WF_vars(Work(p))

Spec == Init /\ [][Next]_vars /\ Fairness

-----------------------------------------------------------------------------
(* Properties *)

(***************************************************************************)
(* acceptedSubmissions counts a student once, though submissions of one    *)
(* student are judged at the same time: each writes ACCEPTED before it     *)
(* looks for others.  (Of two at the same time neither may be counted.)    *)
(* And ACCEPTED stands for a run of all the test cases the problem had     *)
(* when it began, all passed, whatever the judge answered before and       *)
(* whatever became of the test cases meanwhile.                            *)
(***************************************************************************)
SolvedCountsOnce ==
  /\ \A s \in Student : credited[s] <= 1
  /\ accepted <= total
  /\ \A i \in 1..made :
       Alive(i) /\ rows[i].status = "ACCEPTED" => rows[i].passed = rows[i].tests

(***************************************************************************)
(* A judge that fails for ever keeps no submission for ever: whatever a    *)
(* request has begun, it ends, with a verdict or an error.                 *)
(***************************************************************************)
RequestsEnd == \A p \in Process : proc[p].pc # "idle" ~> proc[p].pc = "idle"
=============================================================================
