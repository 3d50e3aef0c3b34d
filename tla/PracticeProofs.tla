---------------------------- MODULE PracticeProofs ----------------------------
(***************************************************************************)
(* Proofs about PracticeSessions and Submissions, as MCPractice has them,  *)
(* for every number of requests, sessions, items and test cases.           *)
(***************************************************************************)
EXTENDS MCPractice, FiniteSetTheorems, TLAPS

-----------------------------------------------------------------------------
(* Facts about sets *)

\* Processes can be counted, and there are no more than all of them.
LEMMA Counting ==
  ASSUME NEW S, IsFiniteSet(S)
  PROVE  /\ Cardinality(S) \in Nat
         /\ \A T \in SUBSET S : /\ IsFiniteSet(T) /\ Cardinality(T) \in Nat
                                /\ Cardinality(T) <= Cardinality(S)
         /\ \A x \in S : Cardinality(S \ {x}) = Cardinality(S) - 1
         /\ \A x : x \notin S => /\ IsFiniteSet(S \cup {x})
                                 /\ Cardinality(S \cup {x}) = Cardinality(S) + 1
<1>1. \A T \in SUBSET S : IsFiniteSet(T) /\ Cardinality(T) <= Cardinality(S)
  BY FS_Subset
<1>2. \A x \in S : Cardinality(S \ {x}) = Cardinality(S) - 1
  BY FS_RemoveElement
<1>3. \A x : x \notin S => IsFiniteSet(S \cup {x}) /\ Cardinality(S \cup {x}) = Cardinality(S) + 1
  BY FS_AddElement
<1> QED
  BY <1>1, <1>2, <1>3, FS_CardinalityType

\* The instances count as this module does.
LEMMA SameCount ==
  /\ \A S : J!IsFiniteSet(S) <=> IsFiniteSet(S)
  /\ \A S : P!IsFiniteSet(S) <=> IsFiniteSet(S)
  /\ \A S : P!Cardinality(S) = Cardinality(S)
<1>1. \A S : (J!IsFiniteSet(S) <=> IsFiniteSet(S)) /\ (P!IsFiniteSet(S) <=> IsFiniteSet(S))
  BY DEF J!IsFiniteSet, P!IsFiniteSet, IsFiniteSet
<1>2. \A S : P!Cardinality(S) = Cardinality(S)
  BY DEF P!Cardinality, Cardinality
<1> QED
  BY <1>1, <1>2

-----------------------------------------------------------------------------
(* Submissions: types, and the tests that have been run                     *)

\* As long as all tests are right the verdict is ACCEPTED and none is missing.
RunOk(x) ==
  /\ x.pc = "run" =>
       /\ x.result.passed <= x.ran /\ x.ran <= x.result.tests
       /\ x.result.verdict = "ACCEPTED" => x.result.passed = x.ran
       /\ x.waits => x.attempt < MaxRetries
  /\ x.pc = "write" /\ x.result.verdict = "ACCEPTED" => x.result.passed = x.result.tests

Judging == {p \in Request : judgeProc[p].pc # "idle"}

\* Every request has a submission of its own, and each submission is counted once.
OwnSubmissions ==
  /\ \A p \in Judging : judgeProc[p].id \in 1..made
  /\ \A p, q \in Judging : judgeProc[p].id = judgeProc[q].id => p = q
  /\ total + Cardinality(Judging) <= made
  /\ accepted <= total

JudgeInv == J!TypeOK /\ OwnSubmissions /\ \A p \in Request : RunOk(judgeProc[p])

\* What a request holds goes with where it is.
LEMMA JudgeLocals ==
  ASSUME NEW x \in J!Local
  PROVE  /\ x.pc \in {"idle", "fetch", "run", "write", "count", "first", "again", "catch"}
         /\ x.pc = "idle" => x = J!Idle
         /\ x.pc # "idle" => x.id \in J!Id
         /\ x.pc = "fetch" => x.local \in BOOLEAN
         /\ x.pc = "run" => x \in [pc : {"run"}, id : J!Id, local : BOOLEAN, ran : J!Count,
                                   result : J!Result, attempt : 0..MaxRetries, waits : BOOLEAN]
         /\ x.pc = "write" => x \in [pc : {"write"}, id : J!Id, result : J!Result]
  BY DEF J!Local, J!Idle

LEMMA JudgeIdle == J!Idle \in J!Local /\ J!Idle.pc = "idle" /\ RunOk(J!Idle)
  BY DEF J!Local, J!Idle, RunOk

\* A request that goes on with its submission, or ends.
LEMMA JudgeMoves ==
  ASSUME JudgeInv, NEW p \in Request, NEW next \in J!Local, J!Goto(p, next), RunOk(next),
         next.pc # "idle" => judgeProc[p].pc # "idle" /\ next.id = judgeProc[p].id
  PROVE  /\ judgeProc' \in [Request -> J!Local] /\ judgeProc'[p] = next
         /\ \A q \in Request : q # p => judgeProc'[q] = judgeProc[q]
         /\ \A q \in Request : RunOk(judgeProc'[q])
         /\ Judging' \subseteq Judging
         /\ next.pc = "idle" => Judging' = Judging \ {p}
         /\ \A q \in Judging' : judgeProc'[q].id = judgeProc[q].id
<1>1. /\ judgeProc' \in [Request -> J!Local] /\ judgeProc'[p] = next
      /\ \A q \in Request : q # p => judgeProc'[q] = judgeProc[q]
  BY DEF JudgeInv, J!TypeOK, J!Goto
<1>2. \A q \in Request : RunOk(judgeProc'[q])
  BY <1>1 DEF JudgeInv
<1> QED
  BY <1>1, <1>2 DEF Judging

LEMMA JudgeFinite == IsFiniteSet(Request) /\ IsFiniteSet(Judging) /\ Cardinality(Judging) \in Nat
<1>1. IsFiniteSet(Request)
  BY SubmissionsAssumption, SameCount DEF J!ConstantsAssumption
<1>2. Judging \subseteq Request
  BY DEF Judging
<1> QED
  BY <1>1, <1>2, Counting

\* ... which keeps everybody's submission his own.
LEMMA OwnMoves ==
  ASSUME JudgeInv, NEW p \in Request, NEW next \in J!Local, J!Goto(p, next), RunOk(next),
         next.pc # "idle" => judgeProc[p].pc # "idle" /\ next.id = judgeProc[p].id,
         UNCHANGED <<made, total, accepted>>
  PROVE  OwnSubmissions'
<1>1. IsFiniteSet(Judging) /\ Judging' \subseteq Judging
  BY JudgeFinite, JudgeMoves
<1>2. Cardinality(Judging') <= Cardinality(Judging) /\ Cardinality(Judging') \in Nat
      /\ Cardinality(Judging) \in Nat
  BY <1>1, Counting
<1>3. total \in Nat /\ made \in Nat
  BY SubmissionsAssumption DEF JudgeInv, J!TypeOK, J!ConstantsAssumption
<1> QED
  BY <1>1, <1>2, <1>3, JudgeMoves DEF JudgeInv, OwnSubmissions

\* What a test that has been run makes of the result.
LEMMA AfterFacts ==
  ASSUME NEW result \in J!Result, NEW outcome \in J!Outcome, result.passed < MaxTests
  PROVE  LET after == J!After(result, outcome) IN
         /\ after \in J!Result /\ after.tests = result.tests
         /\ after.passed = result.passed + (IF outcome = "right" THEN 1 ELSE 0)
         /\ after.verdict = "ACCEPTED" => outcome = "right" /\ result.verdict = "ACCEPTED"
<1> DEFINE after == J!After(result, outcome)
<1>1. after.tests = result.tests
      /\ after.passed = IF outcome = "right" THEN result.passed + 1 ELSE result.passed
  BY DEF J!After, J!Result
<1>2. after.verdict \in J!Verdict
      /\ (after.verdict = "ACCEPTED" => outcome = "right" /\ result.verdict = "ACCEPTED")
  BY DEF J!After, J!Result, J!Outcome, J!Verdict
<1>4. result.passed \in J!Count /\ result.passed + 1 \in J!Count /\ result.tests \in J!Count
  BY SubmissionsAssumption DEF J!Result, J!Count, J!ConstantsAssumption
<1>5. \A v \in J!Verdict, n \in J!Count : [result EXCEPT !.passed = n, !.verdict = v] \in J!Result
  BY DEF J!Result
<1>6. after \in J!Result
  <2>1. PICK v, n : after = [result EXCEPT !.passed = n, !.verdict = v]
    BY DEF J!After
  <2>2. after.verdict = v /\ after.passed = n
    BY <2>1 DEF J!Result
  <2> HIDE DEF after
  <2>3. v \in J!Verdict /\ n \in J!Count
    BY <1>1, <1>2, <1>4, <2>2
  <2> QED
    BY <1>5, <2>1, <2>3
<1> QED
  BY <1>1, <1>2, <1>4, <1>6 DEF J!Count

\* A step that only moves a request on, as the following are.
LEMMA JudgeReads ==
  ASSUME JudgeInv, NEW p \in Request, NEW next \in J!Local, J!Goto(p, next), RunOk(next),
         next.pc # "idle" => judgeProc[p].pc # "idle" /\ next.id = judgeProc[p].id, J!Reads
  PROVE  JudgeInv'
<1>1. OwnSubmissions'
  BY OwnMoves DEF J!Reads, J!problem
<1>2. J!TypeOK'
  BY JudgeMoves DEF JudgeInv, J!TypeOK, J!Reads, J!problem
<1> QED
  BY <1>1, <1>2, JudgeMoves DEF JudgeInv

\* A request that throws is caught with the submission it has.
LEMMA CatchIsLocal ==
  ASSUME JudgeInv, NEW p \in Request, judgeProc[p].pc # "idle"
  PROVE  LET next == [pc |-> "catch", id |-> judgeProc[p].id] IN
         next \in J!Local /\ RunOk(next)
<1>1. judgeProc[p].id \in J!Id
  BY JudgeLocals DEF JudgeInv, J!TypeOK
<1> QED
  BY <1>1 DEF J!Local, RunOk

LEMMA JudgeFetches ==
  ASSUME JudgeInv, NEW p \in Request, J!FetchTests(p)
  PROVE  JudgeInv'
<1> DEFINE me == judgeProc[p]
           next == [pc |-> "run", id |-> me.id, local |-> me.local, ran |-> 0,
                    result |-> [verdict |-> "ACCEPTED", passed |-> 0, tests |-> tests],
                    attempt |-> 0, waits |-> FALSE]
<1>1. me.pc = "fetch" /\ J!Reads
  BY DEF J!FetchTests
<1>2. CASE tests = None
  BY <1>1, <1>2, CatchIsLocal, JudgeReads DEF J!FetchTests, J!Catch
<1>3. CASE tests # None
  <2>1. me.id \in J!Id /\ me.local \in BOOLEAN /\ tests \in J!Count
    BY <1>1, <1>3, JudgeLocals DEF JudgeInv, J!TypeOK
  <2>2. 0 \in J!Count /\ 0 \in 0..MaxRetries /\ 0 <= tests
    BY <2>1, SubmissionsAssumption DEF J!Count, J!ConstantsAssumption
  <2>3. [verdict |-> "ACCEPTED", passed |-> 0, tests |-> tests] \in J!Result
    BY <2>1, <2>2 DEF J!Result, J!Verdict
  <2>4. next \in [pc : {"run"}, id : J!Id, local : BOOLEAN, ran : J!Count,
                  result : J!Result, attempt : 0..MaxRetries, waits : BOOLEAN]
    BY <2>1, <2>2, <2>3
  <2>5. next \in J!Local /\ RunOk(next)
    BY <2>2, <2>4 DEF J!Local, RunOk
  <2>6. J!Goto(p, next) /\ next.id = me.id
    BY <1>3 DEF J!FetchTests
  <2> QED
    BY <1>1, <2>5, <2>6, JudgeReads
<1> QED
  BY <1>2, <1>3

\* What a request holds while its program runs.
LEMMA RunningFacts ==
  ASSUME JudgeInv, NEW p \in Request, judgeProc[p].pc = "run"
  PROVE  /\ judgeProc[p] \in [pc : {"run"}, id : J!Id, local : BOOLEAN, ran : J!Count,
                              result : J!Result, attempt : 0..MaxRetries, waits : BOOLEAN]
         /\ judgeProc[p].ran \in Nat /\ judgeProc[p].result.passed \in Nat
         /\ judgeProc[p].result.tests \in Nat /\ judgeProc[p].result.tests <= MaxTests
         /\ RunOk(judgeProc[p])
<1>1. judgeProc[p] \in [pc : {"run"}, id : J!Id, local : BOOLEAN, ran : J!Count,
                        result : J!Result, attempt : 0..MaxRetries, waits : BOOLEAN]
  BY JudgeLocals DEF JudgeInv, J!TypeOK
<1> QED
  BY <1>1, SubmissionsAssumption DEF JudgeInv, J!Result, J!Count, J!ConstantsAssumption

LEMMA JudgeRuns ==
  ASSUME JudgeInv, NEW p \in Request, NEW outcome \in J!Outcome, J!RunTest(p, outcome)
  PROVE  JudgeInv'
<1> DEFINE me == judgeProc[p]
           result == J!After(me.result, outcome)
<1>1. me.pc = "run" /\ me.ran < me.result.tests /\ J!Reads
  BY DEF J!RunTest, J!Running
<1>2. /\ me \in [pc : {"run"}, id : J!Id, local : BOOLEAN, ran : J!Count,
                 result : J!Result, attempt : 0..MaxRetries, waits : BOOLEAN]
      /\ me.ran \in Nat /\ me.result.passed \in Nat /\ me.result.tests \in Nat
      /\ me.result.tests <= MaxTests /\ RunOk(me)
  BY <1>1, RunningFacts
<1>3. me.result.passed <= me.ran
  BY <1>1, <1>2 DEF RunOk
<1>4. /\ result \in J!Result /\ result.tests = me.result.tests
      /\ result.passed = me.result.passed + (IF outcome = "right" THEN 1 ELSE 0)
      /\ result.verdict = "ACCEPTED" => outcome = "right" /\ me.result.verdict = "ACCEPTED"
  <2>1. me.result \in J!Result /\ me.result.passed < MaxTests
    BY <1>1, <1>2, <1>3, SubmissionsAssumption DEF J!ConstantsAssumption
  <2> QED
    BY <2>1, AfterFacts
<1> HIDE DEF result
<1>5. CASE outcome = "uncompiled"
  <2> DEFINE next == [pc |-> "write", id |-> me.id, result |-> result]
  <2>1. next \in J!Local /\ RunOk(next)
    BY <1>2, <1>4, <1>5 DEF J!Local, RunOk
  <2>2. J!Goto(p, next)
    BY <1>5 DEF J!RunTest, result
  <2> QED
    BY <1>1, <2>1, <2>2, JudgeReads
<1>6. CASE outcome # "uncompiled"
  <2> DEFINE next == [me EXCEPT !.ran = @ + 1, !.result = result, !.attempt = 0]
  <2>1. me.ran + 1 \in J!Count /\ 0 \in 0..MaxRetries
    BY <1>1, <1>2, SubmissionsAssumption DEF J!Count, J!ConstantsAssumption
  <2>2. next \in [pc : {"run"}, id : J!Id, local : BOOLEAN, ran : J!Count,
                  result : J!Result, attempt : 0..MaxRetries, waits : BOOLEAN]
    BY <1>2, <1>4, <2>1
  <2>3. next.pc = "run" /\ next.id = me.id /\ next.ran = me.ran + 1 /\ next.result = result
        /\ next.waits = me.waits
    BY <1>2
  <2>4. ~me.waits
    BY DEF J!RunTest, J!Running
  <2>5. RunOk(next)
    BY <1>1, <1>2, <1>3, <1>4, <2>3, <2>4 DEF RunOk
  <2>6. J!Goto(p, next)
    BY <1>6 DEF J!RunTest, result
  <2>7. next \in J!Local
    BY <2>2 DEF J!Local
  <2> QED
    BY <1>1, <2>3, <2>5, <2>6, <2>7, JudgeReads
<1> QED
  BY <1>5, <1>6

LEMMA JudgeWaits ==
  ASSUME JudgeInv, NEW p \in Request,
         \/ J!JudgeFails(p) \/ J!Retry(p) \/ J!JudgeRefuses(p) \/ J!RunsEnd(p)
         \/ J!CountOthers(p) \/ J!Throw(p)
  PROVE  JudgeInv'
<1> DEFINE me == judgeProc[p]
<1>1. ASSUME me.pc # "idle", J!Catch(p), J!Reads PROVE JudgeInv'
  BY <1>1, CatchIsLocal, JudgeReads DEF J!Catch
<1>2. CASE J!JudgeFails(p) /\ me.attempt # MaxRetries
  <2> DEFINE next == [me EXCEPT !.waits = TRUE]
  <2>1. me.pc = "run" /\ J!Goto(p, next) /\ J!Reads
    BY <1>2 DEF J!JudgeFails, J!Running
  <2>2. me \in [pc : {"run"}, id : J!Id, local : BOOLEAN, ran : J!Count,
                result : J!Result, attempt : 0..MaxRetries, waits : BOOLEAN] /\ RunOk(me)
    BY <2>1, RunningFacts
  <2>3. next \in J!Local /\ next.pc = "run" /\ next.id = me.id
    BY <2>2 DEF J!Local
  <2>4. me.attempt < MaxRetries
    BY <1>2, <2>2, SubmissionsAssumption DEF J!ConstantsAssumption
  <2>5. RunOk(next)
    BY <2>2, <2>4 DEF RunOk
  <2> QED
    BY <2>1, <2>3, <2>5, JudgeReads
<1>3. CASE J!Retry(p)
  <2> DEFINE next == [me EXCEPT !.waits = FALSE, !.attempt = me.attempt + 1]
  <2>1. me.pc = "run" /\ me.waits /\ J!Goto(p, next) /\ J!Reads
    BY <1>3 DEF J!Retry, J!Attempted
  <2>2. me \in [pc : {"run"}, id : J!Id, local : BOOLEAN, ran : J!Count,
                result : J!Result, attempt : 0..MaxRetries, waits : BOOLEAN] /\ RunOk(me)
    BY <2>1, RunningFacts
  <2>3. me.attempt + 1 \in 0..MaxRetries
    BY <2>1, <2>2, SubmissionsAssumption DEF RunOk, J!ConstantsAssumption
  <2>4. next \in J!Local /\ next.pc = "run" /\ next.id = me.id
    BY <2>2, <2>3 DEF J!Local
  <2>5. RunOk(next)
    BY <2>2 DEF RunOk
  <2> QED
    BY <2>1, <2>4, <2>5, JudgeReads
<1>4. CASE J!RunsEnd(p)
  <2> DEFINE result == J!Judged(me.result)
             next == [pc |-> "write", id |-> me.id, result |-> result]
  <2>1. me.pc = "run" /\ me.ran = me.result.tests /\ J!Goto(p, next) /\ J!Reads
    BY <1>4 DEF J!RunsEnd
  <2>2. me \in [pc : {"run"}, id : J!Id, local : BOOLEAN, ran : J!Count,
                result : J!Result, attempt : 0..MaxRetries, waits : BOOLEAN] /\ RunOk(me)
    BY <2>1, RunningFacts
  <2>3. result \in J!Result /\ (result.verdict = "ACCEPTED" => result.passed = result.tests)
    BY <2>1, <2>2 DEF J!Judged, J!Result, J!Verdict, RunOk
  <2>4. next \in J!Local /\ RunOk(next)
    BY <2>2, <2>3 DEF J!Local, RunOk
  <2> QED
    BY <2>1, <2>4, JudgeReads
<1>5. CASE J!CountOthers(p)
  <2> DEFINE next == [pc |-> IF J!Others(me.id) = {} THEN "first" ELSE "again", id |-> me.id]
  <2>1. me.pc = "count" /\ J!Goto(p, next) /\ J!Reads
    BY <1>5 DEF J!CountOthers
  <2>2. next \in J!Local /\ RunOk(next) /\ next.pc # "idle"
    BY <2>1, JudgeLocals DEF JudgeInv, J!TypeOK, J!Local, RunOk
  <2> QED
    BY <2>1, <2>2, JudgeReads
<1> QED
  BY <1>1, <1>2, <1>3, <1>4, <1>5 DEF J!JudgeFails, J!JudgeRefuses, J!Throw, J!Running

LEMMA JudgeWrites ==
  ASSUME JudgeInv, NEW p \in Request, J!WriteVerdict(p) \/ J!WriteError(p)
  PROVE  JudgeInv'
<1> DEFINE me == judgeProc[p]
           i == me.id
<1>1. UNCHANGED <<J!problem, made, credited>> /\ me.pc # "idle"
  BY DEF J!WriteVerdict, J!WriteError
<1>2. i \in 1..made
  BY <1>1 DEF JudgeInv, OwnSubmissions, Judging
<1>3. ASSUME J!Alive(i) PROVE rows[i] \in J!Row
  BY <1>3 DEF J!Alive, JudgeInv, J!TypeOK
<1>4. CASE J!WriteVerdict(p)
  <2>1. me \in [pc : {"write"}, id : J!Id, result : J!Result]
    BY <1>4, JudgeLocals DEF J!WriteVerdict, JudgeInv, J!TypeOK
  <2>2. CASE J!Alive(i)
    <3> DEFINE next == [pc |-> IF me.result.verdict = "ACCEPTED" THEN "count" ELSE "again", id |-> i]
    <3>1. J!Goto(p, next)
      BY <1>4, <2>2 DEF J!WriteVerdict
    <3>2. next \in J!Local /\ RunOk(next) /\ next.id = i
      BY <2>1 DEF J!Local, RunOk
    <3>3. rows' = [rows EXCEPT ![i].status = me.result.verdict, ![i].passed = me.result.passed,
                               ![i].tests = me.result.tests]
      BY <1>4, <2>2 DEF J!WriteVerdict
    <3>4. [rows[i] EXCEPT !.status = me.result.verdict, !.passed = me.result.passed,
                          !.tests = me.result.tests] \in J!Row
      BY <1>3, <2>1, <2>2 DEF J!Row, J!Result
    <3>5. rows' \in [1..made -> J!Row \cup {None}]
      BY <1>2, <3>3, <3>4 DEF JudgeInv, J!TypeOK
    <3>6. OwnSubmissions'
      BY <1>1, <3>1, <3>2, OwnMoves DEF J!problem
    <3> QED
      BY <1>1, <3>1, <3>2, <3>5, <3>6, JudgeMoves DEF JudgeInv, J!TypeOK, J!problem
  <2>3. CASE ~J!Alive(i)
    BY <1>1, <1>4, <2>3, CatchIsLocal, JudgeReads DEF J!WriteVerdict, J!Reads, J!Catch
  <2> QED
    BY <2>2, <2>3
<1>5. CASE J!WriteError(p)
  <2>1. J!Goto(p, J!Idle)
    BY <1>5 DEF J!WriteError, J!End
  <2>2. rows' \in [1..made -> J!Row \cup {None}]
    <3>1. CASE J!Alive(i)
      <4>1. [rows[i] EXCEPT !.status = "RUNTIME_ERROR"] \in J!Row
        BY <1>3, <3>1 DEF J!Row, J!Verdict
      <4> QED
        BY <1>2, <1>5, <3>1, <4>1 DEF J!WriteError, JudgeInv, J!TypeOK
    <3>2. CASE ~J!Alive(i)
      BY <1>5, <3>2 DEF J!WriteError, JudgeInv, J!TypeOK
    <3> QED
      BY <3>1, <3>2
  <2>3. OwnSubmissions'
    BY <1>1, <2>1, JudgeIdle, OwnMoves DEF J!problem
  <2> QED
    BY <1>1, <2>1, <2>2, <2>3, JudgeIdle, JudgeMoves DEF JudgeInv, J!TypeOK, J!problem
<1> QED
  BY <1>4, <1>5

LEMMA JudgeSubmits ==
  ASSUME JudgeInv, NEW p \in Request, NEW s \in Student, NEW local \in BOOLEAN,
         J!Submit(p, s, local)
  PROVE  JudgeInv'
<1> DEFINE next == [pc |-> "fetch", id |-> made + 1, local |-> local]
           row == [student |-> s, status |-> "PENDING", passed |-> 0, tests |-> 0]
<1>1. /\ judgeProc[p].pc = "idle" /\ made < MaxSubmissions /\ made' = made + 1
      /\ J!Goto(p, next) /\ UNCHANGED <<J!problem, credited>>
      /\ rows' = [i \in 1..(made + 1) |-> IF i = made + 1 THEN row ELSE rows[i]]
  BY DEF J!Submit
<1>2. made \in Nat /\ made + 1 \in J!Id /\ made' \in 0..MaxSubmissions
      /\ total \in Nat /\ accepted \in Nat
  BY <1>1, SubmissionsAssumption DEF JudgeInv, J!TypeOK, J!Id, J!ConstantsAssumption
<1>3. next \in J!Local /\ RunOk(next) /\ next.pc # "idle"
  BY <1>2 DEF J!Local, RunOk
<1>4. /\ judgeProc' \in [Request -> J!Local] /\ judgeProc'[p] = next
      /\ \A q \in Request : q # p => judgeProc'[q] = judgeProc[q]
  BY <1>1, <1>3 DEF JudgeInv, J!TypeOK, J!Goto
<1>5. row \in J!Row
  BY SubmissionsAssumption DEF J!Row, J!Count, J!ConstantsAssumption
<1>6. rows' \in [1..made' -> J!Row \cup {None}]
  <2>1. \A i \in 1..(made + 1) : i # made + 1 => rows[i] \in J!Row \cup {None}
    BY <1>2 DEF JudgeInv, J!TypeOK
  <2> QED
    BY <1>1, <1>5, <2>1
<1>7. J!TypeOK'
  BY <1>1, <1>2, <1>4, <1>6 DEF JudgeInv, J!TypeOK, J!problem
<1>8. Judging' = Judging \cup {p} /\ p \notin Judging
  BY <1>1, <1>3, <1>4 DEF Judging
<1>9. OwnSubmissions'
  <2>1. \A q \in Judging' : q # p => judgeProc'[q] = judgeProc[q] /\ q \in Judging
    BY <1>4, <1>8 DEF Judging
  <2>2. \A q \in Judging : judgeProc[q].id \in 1..made
    BY DEF JudgeInv, OwnSubmissions
  <2>3. \A q \in Judging' : judgeProc'[q].id \in 1..made'
    BY <1>1, <1>2, <1>4, <2>1, <2>2
  <2>4. \A q, r \in Judging' : judgeProc'[q].id = judgeProc'[r].id => q = r
    BY <1>2, <1>4, <2>1, <2>2 DEF JudgeInv, OwnSubmissions
  <2>5. Cardinality(Judging') = Cardinality(Judging) + 1 /\ Cardinality(Judging) \in Nat
    BY <1>8, JudgeFinite, Counting
  <2>6. total' + Cardinality(Judging') <= made'
    BY <1>1, <1>2, <2>5 DEF JudgeInv, OwnSubmissions, J!problem
  <2> QED
    BY <1>1, <2>3, <2>4, <2>6 DEF JudgeInv, OwnSubmissions, J!problem
<1> QED
  BY <1>3, <1>4, <1>7, <1>9 DEF JudgeInv

LEMMA JudgeCounts ==
  ASSUME JudgeInv, NEW p \in Request, J!UpdateStats(p)
  PROVE  JudgeInv'
<1> DEFINE me == judgeProc[p]
<1>1. me.pc \in {"first", "again"} /\ UNCHANGED <<tests, rows, made>>
  BY DEF J!UpdateStats
<1>2. CASE tests = None
  BY <1>1, <1>2, CatchIsLocal, JudgeReads DEF J!UpdateStats, J!Reads, J!Catch, J!problem
<1>3. CASE tests # None
  <2>1. /\ J!Goto(p, J!Idle) /\ total' = total + 1
        /\ accepted' \in {accepted, accepted + 1}
    BY <1>3 DEF J!UpdateStats, J!End
  <2>2. credited' \in [Student -> Nat]
    BY <1>3 DEF J!UpdateStats, JudgeInv, J!TypeOK
  <2>3. /\ judgeProc' \in [Request -> J!Local] /\ Judging' = Judging \ {p}
        /\ \A q \in Request : RunOk(judgeProc'[q])
        /\ \A q \in Judging' : judgeProc'[q].id = judgeProc[q].id
    BY <2>1, JudgeIdle, JudgeMoves
  <2>4. p \in Judging
    BY <1>1 DEF Judging
  <2>5. Cardinality(Judging') = Cardinality(Judging) - 1 /\ Cardinality(Judging) \in Nat
        /\ Cardinality(Judging') \in Nat
    BY <2>3, <2>4, JudgeFinite, Counting
  <2>6. total \in Nat /\ accepted \in Nat /\ made \in 0..MaxSubmissions
    BY SubmissionsAssumption DEF JudgeInv, J!TypeOK, J!ConstantsAssumption
  <2>7. /\ total + Cardinality(Judging) <= made /\ accepted <= total
        /\ \A q \in Judging : judgeProc[q].id \in 1..made
        /\ \A q, r \in Judging : judgeProc[q].id = judgeProc[r].id => q = r
    BY DEF JudgeInv, OwnSubmissions
  <2>8. OwnSubmissions'
    BY <1>1, <2>1, <2>3, <2>5, <2>6, <2>7 DEF OwnSubmissions
  <2>9. total' \in 0..MaxSubmissions /\ accepted' \in 0..MaxSubmissions
    <3>1. MaxSubmissions \in Nat
      BY SubmissionsAssumption DEF J!ConstantsAssumption
    <3>2. total + 1 <= made /\ accepted' <= total + 1
      BY <2>1, <2>5, <2>6, <2>7
    <3> QED
      BY <2>1, <2>6, <3>1, <3>2
  <2> QED
    BY <1>1, <2>2, <2>3, <2>8, <2>9 DEF JudgeInv, J!TypeOK
<1> QED
  BY <1>2, <1>3

LEMMA JudgeElse ==
  ASSUME JudgeInv, (\E n \in J!Count : J!AddTests(n)) \/ J!RemoveTest \/ J!RemoveProblem \/ J!Restart
  PROVE  JudgeInv'
<1>1. CASE (\E n \in J!Count : J!AddTests(n)) \/ J!RemoveTest
  <2>1. tests' \in J!Count
    BY <1>1, SubmissionsAssumption
    DEF J!AddTests, J!RemoveTest, JudgeInv, J!TypeOK, J!Count, J!ConstantsAssumption
  <2>2. UNCHANGED <<total, accepted, rows, made, judgeProc, credited>>
    BY <1>1 DEF J!AddTests, J!RemoveTest
  <2> QED
    BY <2>1, <2>2 DEF JudgeInv, J!TypeOK, OwnSubmissions, Judging
<1>2. CASE J!RemoveProblem
  <2>1. /\ tests' = None /\ total' = 0 /\ accepted' = 0 /\ UNCHANGED <<made, judgeProc>>
        /\ rows' = [i \in 1..made |-> None] /\ credited' = [s \in Student |-> 0]
    BY <1>2 DEF J!RemoveProblem
  <2>2. 0 \in 0..MaxSubmissions /\ total \in Nat /\ made \in Nat
    BY SubmissionsAssumption DEF JudgeInv, J!TypeOK, J!ConstantsAssumption
  <2>3. OwnSubmissions'
    BY <2>1, <2>2, JudgeFinite DEF JudgeInv, OwnSubmissions, Judging
  <2> QED
    BY <2>1, <2>2, <2>3 DEF JudgeInv, J!TypeOK
<1>3. CASE J!Restart
  <2>1. judgeProc' = [p \in Request |-> J!Idle] /\ UNCHANGED <<J!problem, rows, made, credited>>
    BY <1>3 DEF J!Restart, J!Reads
  <2>2. Judging' = {}
    BY <2>1, JudgeIdle DEF Judging
  <2>3. OwnSubmissions'
    BY <2>1, <2>2, JudgeFinite, FS_EmptySet, SubmissionsAssumption
    DEF JudgeInv, OwnSubmissions, J!problem, J!TypeOK, J!ConstantsAssumption
  <2> QED
    BY <2>1, <2>3, JudgeIdle DEF JudgeInv, J!TypeOK, J!problem
<1> QED
  BY <1>1, <1>2, <1>3

LEMMA JudgeStart == J!Init => JudgeInv
<1> SUFFICES ASSUME J!Init PROVE JudgeInv
  OBVIOUS
<1>1. judgeProc \in [Request -> J!Local] /\ \A p \in Request : RunOk(judgeProc[p])
  BY JudgeIdle DEF J!Init
<1>2. Judging = {}
  BY JudgeIdle DEF J!Init, Judging
<1>3. OwnSubmissions
  BY <1>2, FS_EmptySet DEF J!Init, OwnSubmissions
<1>4. rows \in [1..made -> J!Row \cup {None}] /\ credited \in [Student -> Nat]
  BY DEF J!Init
<1> QED
  BY <1>1, <1>3, <1>4, SubmissionsAssumption DEF J!Init, JudgeInv, J!TypeOK, J!ConstantsAssumption

LEMMA JudgeStep == ASSUME JudgeInv, [J!Next]_J!vars PROVE JudgeInv'
<1>1. ASSUME NEW p \in Request, J!Work(p) \/ J!Throw(p) PROVE JudgeInv'
  BY <1>1, JudgeFetches, JudgeRuns, JudgeWaits, JudgeWrites, JudgeCounts DEF J!Work
<1>2. ASSUME UNCHANGED J!vars PROVE JudgeInv'
  BY <1>2 DEF J!vars, J!problem, JudgeInv, J!TypeOK, OwnSubmissions, Judging
<1> QED
  BY <1>1, <1>2, JudgeSubmits, JudgeElse DEF J!Next

LEMMA JudgeTypes == J!Spec => []JudgeInv
  BY JudgeStart, JudgeStep, PTL DEF J!Spec

-----------------------------------------------------------------------------
(* Submissions: a student is counted once                                   *)

\* The rows of a problem that is gone are gone, and nobody is credited with it.
RowsOfProblem ==
  /\ tests = None =>
       (\A i \in 1..made : rows[i] = None) /\ \A s \in Student : credited[s] = 0
  /\ tests # None => \A i \in 1..made : rows[i] # None

AcceptedPassedAll ==
  \A i \in 1..made : rows[i] # None /\ rows[i].status = "ACCEPTED" => rows[i].passed = rows[i].tests

\* Who looks for others has been accepted, and stays so as nobody else has his row.
CountersAccepted ==
  tests # None => \A p \in Request :
    judgeProc[p].pc \in {"count", "first"} => rows[judgeProc[p].id].status = "ACCEPTED"

Accepted(s, j) == j \in 1..made /\ rows[j].student = s /\ rows[j].status = "ACCEPTED"
First(p, s) == judgeProc[p].pc = "first" /\ rows[judgeProc[p].id].student = s

\* Who has been credited has an accepted row that no request will touch; who is
\* about to be has not been, and is the only one.
CreditedOnce ==
  tests # None => \A s \in Student :
    /\ credited[s] <= 1
    /\ credited[s] # 0 => \E j \in 1..made : Accepted(s, j) /\ \A p \in Judging : judgeProc[p].id # j
    /\ \A p \in Request : First(p, s) => credited[s] = 0
    /\ \A p, q \in Request : First(p, s) /\ First(q, s) => p = q

SolvedInv == RowsOfProblem /\ AcceptedPassedAll /\ CountersAccepted /\ CreditedOnce

\* A request that goes on without counting, whatever becomes of its own row.
LEMMA SolvedMoves ==
  ASSUME JudgeInv, SolvedInv, NEW p \in Request, judgeProc[p].pc # "idle",
         \A q \in Request : q # p => judgeProc'[q] = judgeProc[q],
         judgeProc'[p].pc # "idle" => judgeProc'[p].id = judgeProc[p].id,
         judgeProc'[p].pc # "first",
         UNCHANGED <<tests, made, credited>>,
         \A i \in 1..made : i # judgeProc[p].id => rows'[i] = rows[i],
         LET i == judgeProc[p].id IN
           /\ (rows'[i] = None) <=> (rows[i] = None)
           /\ rows[i] # None => rows'[i].student = rows[i].student
           /\ rows[i] # None /\ rows'[i].status = "ACCEPTED" => rows'[i].passed = rows'[i].tests
           /\ judgeProc'[p].pc = "count" => rows'[i].status = "ACCEPTED"
  PROVE  SolvedInv'
<1> DEFINE i == judgeProc[p].id
<1>1. /\ Judging' \subseteq Judging
      /\ \A q \in Judging' : judgeProc'[q].id = judgeProc[q].id
  BY DEF Judging
<1>2. \A q \in Judging : judgeProc[q].id \in 1..made /\ (q # p => judgeProc[q].id # i)
  BY DEF JudgeInv, OwnSubmissions, Judging
<1>3. RowsOfProblem' /\ AcceptedPassedAll'
  BY DEF SolvedInv, RowsOfProblem, AcceptedPassedAll
<1>4. \A q \in Request : q # p /\ judgeProc[q].pc # "idle" =>
        judgeProc[q].id \in 1..made /\ rows'[judgeProc[q].id] = rows[judgeProc[q].id]
  BY <1>2 DEF Judging
<1>5. CountersAccepted'
  BY <1>1, <1>4 DEF SolvedInv, CountersAccepted
<1>6. \A q \in Request, s \in Student : First(q, s)' => q # p /\ First(q, s)
  BY <1>1, <1>4 DEF First
<1>7. \A j \in 1..made, s \in Student : Accepted(s, j) /\ j # i => Accepted(s, j)'
  BY DEF Accepted
<1>8. p \in Judging
  BY DEF Judging
<1>9. CreditedOnce'
  BY <1>1, <1>6, <1>7, <1>8 DEF SolvedInv, CreditedOnce
<1> QED
  BY <1>3, <1>5, <1>9 DEF SolvedInv

LEMMA SolvedReads ==
  ASSUME JudgeInv, SolvedInv, NEW p \in Request, judgeProc[p].pc # "idle",
         \A q \in Request : q # p => judgeProc'[q] = judgeProc[q],
         judgeProc'[p].pc # "idle" => judgeProc'[p].id = judgeProc[p].id,
         judgeProc'[p].pc \notin {"count", "first"}, J!Reads
  PROVE  SolvedInv'
<1>1. judgeProc[p].id \in 1..made
  BY DEF JudgeInv, OwnSubmissions, Judging
<1>2. rows' = rows /\ UNCHANGED <<tests, made, credited>>
  BY DEF J!Reads, J!problem
<1>3. LET i == judgeProc[p].id IN
        rows[i] # None /\ rows'[i].status = "ACCEPTED" => rows'[i].passed = rows'[i].tests
  BY <1>1, <1>2 DEF SolvedInv, AcceptedPassedAll
<1> QED
  BY <1>2, <1>3, SolvedMoves

LEMMA SolvedRuns ==
  ASSUME JudgeInv, SolvedInv, NEW p \in Request,
         \/ J!FetchTests(p) \/ \E outcome \in J!Outcome : J!RunTest(p, outcome)
         \/ J!JudgeFails(p) \/ J!Retry(p) \/ J!JudgeRefuses(p) \/ J!RunsEnd(p) \/ J!Throw(p)
  PROVE  SolvedInv'
<1> DEFINE me == judgeProc[p]
<1>0. judgeProc \in [Request -> J!Local]
  BY DEF JudgeInv, J!TypeOK
<1>1. ASSUME NEW next, J!Goto(p, next), J!Reads, me.pc # "idle", next.id = me.id,
             next.pc \notin {"count", "first"}
      PROVE  SolvedInv'
  BY <1>0, <1>1, SolvedReads DEF J!Goto
<1>2. ASSUME J!Catch(p), J!Reads, me.pc # "idle" PROVE SolvedInv'
  BY <1>1, <1>2 DEF J!Catch
<1>3. CASE J!FetchTests(p)
  BY <1>1, <1>2, <1>3 DEF J!FetchTests
<1>4. ASSUME me.pc = "run"
      PROVE  \A a, b, d, e : /\ [me EXCEPT !.ran = a, !.result = b, !.attempt = d].pc = "run"
                             /\ [me EXCEPT !.ran = a, !.result = b, !.attempt = d].id = me.id
                             /\ [me EXCEPT !.waits = e].pc = "run"
                             /\ [me EXCEPT !.waits = e].id = me.id
                             /\ [me EXCEPT !.waits = e, !.attempt = d].pc = "run"
                             /\ [me EXCEPT !.waits = e, !.attempt = d].id = me.id
  BY <1>4, RunningFacts
<1>5. ASSUME NEW outcome \in J!Outcome, J!RunTest(p, outcome) PROVE SolvedInv'
  <2>1. me.pc = "run" /\ J!Reads
    BY <1>5 DEF J!RunTest, J!Running
  <2>2. \/ \E result : J!Goto(p, [pc |-> "write", id |-> me.id, result |-> result])
        \/ \E a, b : J!Goto(p, [me EXCEPT !.ran = a, !.result = b, !.attempt = 0])
    BY <1>5 DEF J!RunTest
  <2>3. CASE \E result : J!Goto(p, [pc |-> "write", id |-> me.id, result |-> result])
    <3>1. PICK result : J!Goto(p, [pc |-> "write", id |-> me.id, result |-> result])
      BY <2>3
    <3> QED
      BY <1>1, <2>1, <3>1
  <2>4. CASE \E a, b : J!Goto(p, [me EXCEPT !.ran = a, !.result = b, !.attempt = 0])
    <3>1. PICK a, b : J!Goto(p, [me EXCEPT !.ran = a, !.result = b, !.attempt = 0])
      BY <2>4
    <3> DEFINE next == [me EXCEPT !.ran = a, !.result = b, !.attempt = 0]
    <3>2. next.pc = "run" /\ next.id = me.id
      BY <1>4, <2>1
    <3>3. J!Goto(p, next)
      BY <3>1
    <3> HIDE DEF next
    <3> QED
      BY <1>1, <2>1, <3>2, <3>3
  <2> QED
    BY <2>2, <2>3, <2>4
<1>6. CASE J!JudgeFails(p) \/ J!Retry(p) \/ J!JudgeRefuses(p)
  <2>1. me.pc = "run" /\ J!Reads
    BY <1>6 DEF J!JudgeFails, J!Retry, J!JudgeRefuses, J!Running
  <2>2. \/ J!Catch(p)
        \/ J!Goto(p, [me EXCEPT !.waits = TRUE])
        \/ \E d : J!Goto(p, [me EXCEPT !.waits = FALSE, !.attempt = d])
    BY <1>6 DEF J!JudgeFails, J!Retry, J!JudgeRefuses
  <2> QED
    BY <1>1, <1>2, <1>4, <2>1, <2>2
<1>7. CASE J!RunsEnd(p)
  BY <1>1, <1>7 DEF J!RunsEnd
<1>8. CASE J!Throw(p)
  BY <1>2, <1>8 DEF J!Throw
<1> QED
  BY <1>3, <1>5, <1>6, <1>7, <1>8

\* Whoever finds no other accepted row is the first of his student.
LEMMA SolvedLooks ==
  ASSUME JudgeInv, SolvedInv, NEW p \in Request, J!CountOthers(p)
  PROVE  SolvedInv'
<1> DEFINE me == judgeProc[p]
           i == me.id
<1>0. judgeProc \in [Request -> J!Local]
  BY DEF JudgeInv, J!TypeOK
<1>1. me.pc = "count" /\ J!Reads
      /\ J!Goto(p, [pc |-> IF J!Others(i) = {} THEN "first" ELSE "again", id |-> i])
  BY DEF J!CountOthers
<1>2. /\ judgeProc' \in [Request -> J!Local] => TRUE
      /\ \A q \in Request : q # p => judgeProc'[q] = judgeProc[q]
      /\ judgeProc'[p] = [pc |-> IF J!Others(i) = {} THEN "first" ELSE "again", id |-> i]
  BY <1>0, <1>1 DEF J!Goto
<1>3. CASE J!Others(i) # {}
  BY <1>1, <1>2, <1>3, SolvedReads
<1>4. CASE J!Others(i) = {}
  <2>1. judgeProc'[p].pc = "first" /\ judgeProc'[p].id = i
    BY <1>2, <1>4
  <2>2. UNCHANGED <<tests, made, credited, rows>>
    BY <1>1 DEF J!Reads, J!problem
  <2>3. Judging' = Judging /\ p \in Judging /\ \A q \in Judging : judgeProc'[q].id = judgeProc[q].id
    BY <1>1, <1>2, <2>1 DEF Judging
  <2>4. RowsOfProblem' /\ AcceptedPassedAll'
    BY <2>2 DEF SolvedInv, RowsOfProblem, AcceptedPassedAll
  <2>5. CountersAccepted'
    BY <1>1, <1>2, <2>1, <2>2 DEF SolvedInv, CountersAccepted
  <2>6. ASSUME tests # None, NEW s \in Student, rows[i].student = s
        PROVE  \A j \in 1..made : Accepted(s, j) => j = i
    <3>1. i \in 1..made /\ rows[i] # None
      BY <2>3, <2>6 DEF JudgeInv, OwnSubmissions, SolvedInv, RowsOfProblem
    <3>2. \A j \in 1..made : j # i => ~(rows[j] # None /\ rows[j].student = s /\ rows[j].status = "ACCEPTED")
      BY <1>4, <2>6, <3>1 DEF J!Others, J!OfStudent, J!Alive
    <3>3. \A j \in 1..made : rows[j] # None
      BY <2>6 DEF SolvedInv, RowsOfProblem
    <3> QED
      BY <3>2, <3>3 DEF Accepted
  <2>7. CreditedOnce'
    <3> SUFFICES ASSUME tests # None, NEW s \in Student
        PROVE  /\ credited[s] <= 1
               /\ credited[s] # 0 => \E j \in 1..made : Accepted(s, j)' /\ \A q \in Judging : judgeProc[q].id # j
               /\ \A q \in Request : First(q, s)' => credited[s] = 0
               /\ \A q, r \in Request : First(q, s)' /\ First(r, s)' => q = r
      BY <2>2, <2>3 DEF CreditedOnce
    <3>1. \A j \in 1..made : Accepted(s, j)' <=> Accepted(s, j)
      BY <2>2 DEF Accepted
    <3>2. \A q \in Request : First(q, s)' =>
            (q # p /\ First(q, s)) \/ (q = p /\ rows[i].student = s)
      BY <1>2, <2>1, <2>2 DEF First
    <3>3. /\ credited[s] <= 1
          /\ credited[s] # 0 => \E j \in 1..made : Accepted(s, j) /\ \A q \in Judging : judgeProc[q].id # j
          /\ \A q \in Request : First(q, s) => credited[s] = 0
          /\ \A q, r \in Request : First(q, s) /\ First(r, s) => q = r
      BY DEF SolvedInv, CreditedOnce
    <3>4. CASE rows[i].student # s
      BY <3>1, <3>2, <3>3, <3>4
    <3>5. CASE rows[i].student = s
      <4>1. \A j \in 1..made : Accepted(s, j) => j = i
        BY <2>6, <3>5
      <4>2. credited[s] = 0
        BY <2>3, <3>3, <4>1
      <4>3. \A q \in Request : First(q, s) /\ q # p => FALSE
        <5> SUFFICES ASSUME NEW q \in Request, First(q, s), q # p PROVE FALSE
          OBVIOUS
        <5>1. q \in Judging /\ judgeProc[q].id \in 1..made /\ judgeProc[q].id # i
          BY <2>3 DEF First, Judging, JudgeInv, OwnSubmissions
        <5>2. Accepted(s, judgeProc[q].id)
          BY <5>1 DEF Accepted, First, SolvedInv, CountersAccepted
        <5> QED
          BY <4>1, <5>1, <5>2
      <4> QED
        BY <3>1, <3>2, <3>3, <4>2, <4>3
    <3> QED
      BY <3>4, <3>5
  <2> QED
    BY <2>4, <2>5, <2>7 DEF SolvedInv
<1> QED
  BY <1>3, <1>4

\* A verdict or an error is written to a request's own row.
LEMMA SolvedWrites ==
  ASSUME JudgeInv, SolvedInv, NEW p \in Request, J!WriteVerdict(p) \/ J!WriteError(p)
  PROVE  SolvedInv'
<1> DEFINE me == judgeProc[p]
           i == me.id
<1>0. judgeProc \in [Request -> J!Local] /\ rows \in [1..made -> J!Row \cup {None}]
  BY DEF JudgeInv, J!TypeOK
<1>1. me.pc \in {"write", "catch"} /\ UNCHANGED <<tests, made, credited>>
  BY DEF J!WriteVerdict, J!WriteError, J!problem
<1>2. i \in 1..made
  BY <1>1 DEF JudgeInv, OwnSubmissions, Judging
<1>3. None \notin J!Row
  BY SubmissionsAssumption DEF J!ConstantsAssumption
<1>4. CASE J!WriteVerdict(p) /\ J!Alive(i)
  <2>1. me \in [pc : {"write"}, id : J!Id, result : J!Result] /\ RunOk(me)
    BY <1>0, <1>4, JudgeLocals DEF J!WriteVerdict, JudgeInv
  <2>2. /\ J!Goto(p, [pc |-> IF me.result.verdict = "ACCEPTED" THEN "count" ELSE "again", id |-> i])
        /\ rows' = [rows EXCEPT ![i].status = me.result.verdict, ![i].passed = me.result.passed,
                                ![i].tests = me.result.tests]
    BY <1>4 DEF J!WriteVerdict
  <2>3. rows[i] \in J!Row
    BY <1>0, <1>2, <1>4 DEF J!Alive
  <2> DEFINE row == [rows[i] EXCEPT !.status = me.result.verdict, !.passed = me.result.passed,
                                    !.tests = me.result.tests]
  <2>4. row \in J!Row /\ row.status = me.result.verdict /\ row.passed = me.result.passed
        /\ row.tests = me.result.tests /\ row.student = rows[i].student
    BY <2>1, <2>3 DEF J!Row, J!Result
  <2>5. rows'[i] = row /\ \A j \in 1..made : j # i => rows'[j] = rows[j]
    BY <1>0, <1>2, <2>2
  <2>6. me.result.verdict = "ACCEPTED" => me.result.passed = me.result.tests
    BY <2>1 DEF RunOk
  <2>7. /\ \A q \in Request : q # p => judgeProc'[q] = judgeProc[q]
        /\ judgeProc'[p].id = i
        /\ judgeProc'[p].pc = IF me.result.verdict = "ACCEPTED" THEN "count" ELSE "again"
    BY <1>0, <2>2 DEF J!Goto
  <2> HIDE DEF row
  <2> QED
    BY <1>1, <1>2, <1>3, <2>3, <2>4, <2>5, <2>6, <2>7, SolvedMoves
<1>5. CASE J!WriteVerdict(p) /\ ~J!Alive(i)
  <2>1. J!Catch(p) /\ J!Reads
    BY <1>5 DEF J!WriteVerdict, J!Reads
  <2> QED
    BY <1>0, <1>1, <2>1, SolvedReads DEF J!Catch, J!Goto
<1>6. CASE J!WriteError(p)
  <2>1. /\ \A q \in Request : q # p => judgeProc'[q] = judgeProc[q]
        /\ judgeProc'[p].pc = "idle"
    BY <1>0, <1>6, JudgeIdle DEF J!WriteError, J!End, J!Goto
  <2>2. CASE ~J!Alive(i)
    <3>1. rows' = rows /\ rows[i] = None
      BY <1>2, <1>6, <2>2 DEF J!WriteError, J!Alive
    <3> QED
      BY <1>1, <2>1, <3>1, SolvedMoves
  <2>3. CASE J!Alive(i)
    <3>1. rows[i] \in J!Row
      BY <1>0, <1>2, <2>3 DEF J!Alive
    <3> DEFINE row == [rows[i] EXCEPT !.status = "RUNTIME_ERROR"]
    <3>2. row \in J!Row /\ row.status = "RUNTIME_ERROR" /\ row.student = rows[i].student
      BY <3>1 DEF J!Row, J!Verdict
    <3>3. rows'[i] = row /\ \A j \in 1..made : j # i => rows'[j] = rows[j]
      BY <1>0, <1>2, <1>6, <2>3 DEF J!WriteError
    <3> HIDE DEF row
    <3> QED
      BY <1>1, <1>3, <2>1, <3>1, <3>2, <3>3, SolvedMoves
  <2> QED
    BY <2>2, <2>3
<1> QED
  BY <1>4, <1>5, <1>6

\* The first of his student is credited, and nobody else is about to be.
LEMMA SolvedStats ==
  ASSUME JudgeInv, SolvedInv, NEW p \in Request, J!UpdateStats(p)
  PROVE  SolvedInv'
<1> DEFINE me == judgeProc[p]
           i == me.id
<1>0. judgeProc \in [Request -> J!Local] /\ credited \in [Student -> Nat]
      /\ rows \in [1..made -> J!Row \cup {None}]
  BY DEF JudgeInv, J!TypeOK
<1>1. me.pc \in {"first", "again"} /\ UNCHANGED <<tests, rows, made>>
  BY DEF J!UpdateStats
<1>2. CASE tests = None
  <2>1. J!Catch(p) /\ J!Reads
    BY <1>1, <1>2 DEF J!UpdateStats, J!Reads, J!problem
  <2> QED
    BY <1>0, <1>1, <2>1, SolvedReads DEF J!Catch, J!Goto
<1>3. CASE tests # None
  <2>1. /\ \A q \in Request : q # p => judgeProc'[q] = judgeProc[q]
        /\ judgeProc'[p].pc = "idle"
    BY <1>0, <1>3, JudgeIdle DEF J!UpdateStats, J!End, J!Goto
  <2>2. /\ p \in Judging /\ i \in 1..made /\ Judging' = Judging \ {p}
        /\ \A q \in Judging' : judgeProc'[q].id = judgeProc[q].id /\ judgeProc[q].id # i
    BY <1>1, <2>1 DEF Judging, JudgeInv, OwnSubmissions
  <2>3. RowsOfProblem'
    BY <1>1, <1>3 DEF SolvedInv, RowsOfProblem
  <2>4. AcceptedPassedAll' /\ CountersAccepted'
    BY <1>1, <2>1 DEF SolvedInv, AcceptedPassedAll, CountersAccepted
  <2>5. \A q \in Request, s \in Student : First(q, s)' => q # p /\ First(q, s)
    BY <1>1, <2>1 DEF First
  <2>6. \A j \in 1..made, s \in Student : Accepted(s, j)' <=> Accepted(s, j)
    BY <1>1 DEF Accepted
  <2>7. CASE me.pc = "again"
    <3>1. credited' = credited
      BY <1>3, <2>7 DEF J!UpdateStats
    <3> QED
      BY <1>1, <2>2, <2>3, <2>4, <2>5, <2>6, <3>1 DEF SolvedInv, CreditedOnce
  <2>8. CASE me.pc = "first"
    <3>0. rows[i].student \in Student
      BY <1>0, <1>3, <2>2 DEF SolvedInv, RowsOfProblem, J!Row
    <3>1. PICK t \in Student : t = rows[i].student
      BY <3>0
    <3>2. credited' = [credited EXCEPT ![t] = @ + 1]
      BY <1>3, <2>8, <3>1 DEF J!UpdateStats
    <3>3. First(p, t) /\ Accepted(t, i)
      BY <1>3, <2>2, <2>8, <3>1 DEF First, Accepted, SolvedInv, CountersAccepted
    <3>4. credited[t] = 0 /\ \A q \in Request : First(q, t) => q = p
      BY <1>3, <3>1, <3>3 DEF SolvedInv, CreditedOnce
    <3>5. credited'[t] = 1 /\ \A s \in Student : s # t => credited'[s] = credited[s]
      BY <1>0, <3>1, <3>2, <3>4
    <3>6. \E j \in 1..made : Accepted(t, j)' /\ \A q \in Judging' : judgeProc'[q].id # j
      BY <2>2, <2>6, <3>1, <3>3
    <3>7. \A q \in Request : ~First(q, t)'
      BY <2>5, <3>1, <3>4
    <3>8. CreditedOnce'
      BY <1>1, <2>2, <2>5, <2>6, <3>1, <3>5, <3>6, <3>7 DEF SolvedInv, CreditedOnce
    <3> QED
      BY <2>3, <2>4, <3>8 DEF SolvedInv
  <2> QED
    BY <1>1, <2>7, <2>8
<1> QED
  BY <1>2, <1>3

LEMMA SolvedSubmits ==
  ASSUME JudgeInv, SolvedInv, NEW p \in Request, NEW s \in Student, NEW local \in BOOLEAN,
         J!Submit(p, s, local)
  PROVE  SolvedInv'
<1> DEFINE new == made + 1
<1>0. judgeProc \in [Request -> J!Local] /\ made \in Nat
  BY SubmissionsAssumption DEF JudgeInv, J!TypeOK, J!ConstantsAssumption
<1>1. /\ judgeProc[p].pc = "idle" /\ tests # None /\ made' = new
      /\ UNCHANGED <<J!problem, credited>>
      /\ J!Goto(p, [pc |-> "fetch", id |-> new, local |-> local])
      /\ rows' = [i \in 1..new |-> IF i = new
                    THEN [student |-> s, status |-> "PENDING", passed |-> 0, tests |-> 0]
                    ELSE rows[i]]
  BY DEF J!Submit
<1>2. /\ \A q \in Request : q # p => judgeProc'[q] = judgeProc[q]
      /\ judgeProc'[p].pc = "fetch" /\ judgeProc'[p].id = new
  BY <1>0, <1>1 DEF J!Goto
<1>3. /\ \A i \in 1..made : i \in 1..new /\ rows'[i] = rows[i]
      /\ \A i \in 1..new : i \notin 1..made => i = new
      /\ new \notin 1..made
  BY <1>0, <1>1
<1>4. rows'[new] = [student |-> s, status |-> "PENDING", passed |-> 0, tests |-> 0]
  BY <1>0, <1>1
<1>5. rows'[new] # None /\ rows'[new].status = "PENDING"
  <2>1. rows'[new] \in J!Row
    BY <1>4, SubmissionsAssumption DEF J!Row, J!Count, J!ConstantsAssumption
  <2> QED
    BY <1>4, <2>1, SubmissionsAssumption DEF J!ConstantsAssumption
<1>6. UNCHANGED <<tests, credited>>
  BY <1>1 DEF J!problem
<1>7. /\ \A q \in Judging : judgeProc[q].id \in 1..made
      /\ \A q \in Judging' : q # p => q \in Judging
  BY <1>2 DEF Judging, JudgeInv, OwnSubmissions
<1> HIDE DEF new
<1>8. RowsOfProblem' /\ AcceptedPassedAll'
  BY <1>1, <1>3, <1>5, <1>6 DEF SolvedInv, RowsOfProblem, AcceptedPassedAll
<1>9. \A q \in Request : judgeProc'[q].pc \in {"count", "first"} =>
        /\ q # p /\ judgeProc'[q] = judgeProc[q] /\ judgeProc[q].id \in 1..made
        /\ rows'[judgeProc[q].id] = rows[judgeProc[q].id]
  BY <1>2, <1>3, <1>7 DEF Judging
<1>10. CountersAccepted'
  BY <1>6, <1>9 DEF SolvedInv, CountersAccepted
<1>11. \A q \in Request, t \in Student : First(q, t)' => First(q, t)
  BY <1>9 DEF First
<1>12. \A j \in 1..made, t \in Student : Accepted(t, j) => Accepted(t, j)'
  BY <1>1, <1>3 DEF Accepted
<1>13. \A j \in 1..made : (\A q \in Judging : judgeProc[q].id # j) =>
         j \in 1..new /\ \A q \in Judging' : judgeProc'[q].id # j
  BY <1>2, <1>3, <1>7 DEF Judging
<1>14. CreditedOnce'
  BY <1>1, <1>6, <1>11, <1>12, <1>13 DEF SolvedInv, CreditedOnce
<1> QED
  BY <1>8, <1>10, <1>14 DEF SolvedInv

LEMMA SolvedElse ==
  ASSUME JudgeInv, SolvedInv,
         (\E n \in J!Count : J!AddTests(n)) \/ J!RemoveTest \/ J!RemoveProblem \/ J!Restart
  PROVE  SolvedInv'
<1>1. CASE (\E n \in J!Count : J!AddTests(n)) \/ J!RemoveTest
  <2>1. /\ tests # None /\ UNCHANGED <<rows, made, judgeProc, credited>>
    BY <1>1 DEF J!AddTests, J!RemoveTest
  <2>2. tests' # None
    <3>1. tests' \in J!Count
      BY <1>1, SubmissionsAssumption
      DEF J!AddTests, J!RemoveTest, JudgeInv, J!TypeOK, J!Count, J!ConstantsAssumption
    <3> QED
      BY <3>1, SubmissionsAssumption DEF J!ConstantsAssumption
  <2> QED
    BY <2>1, <2>2 DEF SolvedInv, RowsOfProblem, AcceptedPassedAll, CountersAccepted, CreditedOnce,
                      First, Accepted, Judging
<1>2. CASE J!RemoveProblem
  BY <1>2 DEF J!RemoveProblem, SolvedInv, RowsOfProblem, AcceptedPassedAll, CountersAccepted, CreditedOnce
<1>3. CASE J!Restart
  <2>1. judgeProc' = [p \in Request |-> J!Idle] /\ UNCHANGED <<tests, rows, made, credited>>
    BY <1>3 DEF J!Restart, J!Reads, J!problem
  <2>2. Judging' = {} /\ \A p \in Request : judgeProc'[p].pc = "idle"
    BY <2>1, JudgeIdle DEF Judging
  <2>3. RowsOfProblem' /\ AcceptedPassedAll' /\ CountersAccepted'
    BY <2>1, <2>2 DEF SolvedInv, RowsOfProblem, AcceptedPassedAll, CountersAccepted
  <2>4. CreditedOnce'
    BY <2>1, <2>2 DEF SolvedInv, CreditedOnce, First, Accepted
  <2> QED
    BY <2>3, <2>4 DEF SolvedInv
<1> QED
  BY <1>1, <1>2, <1>3

LEMMA SolvedStart == J!Init => SolvedInv
<1> SUFFICES ASSUME J!Init PROVE SolvedInv
  OBVIOUS
<1>1. /\ made = 0 /\ \A p \in Request : judgeProc[p].pc = "idle"
      /\ \A s \in Student : credited[s] = 0
      /\ tests # None
  BY JudgeIdle, SubmissionsAssumption DEF J!Init, J!ConstantsAssumption
<1>2. 1..made = {}
  BY <1>1
<1> QED
  BY <1>1, <1>2 DEF SolvedInv, RowsOfProblem, AcceptedPassedAll, CountersAccepted, CreditedOnce, First

LEMMA SolvedStep == ASSUME JudgeInv, SolvedInv, [J!Next]_J!vars PROVE SolvedInv'
<1>1. ASSUME NEW p \in Request, J!Work(p) \/ J!Throw(p) PROVE SolvedInv'
  BY <1>1, SolvedRuns, SolvedLooks, SolvedWrites, SolvedStats DEF J!Work
<1>2. ASSUME UNCHANGED J!vars PROVE SolvedInv'
  BY <1>2 DEF J!vars, J!problem, SolvedInv, RowsOfProblem, AcceptedPassedAll, CountersAccepted,
              CreditedOnce, First, Accepted, Judging
<1> QED
  BY <1>1, <1>2, SolvedSubmits, SolvedElse DEF J!Next

\* However many submissions of a student are judged at the same time, he is
\* counted among those who have solved the problem at most once, as
\* SubmissionsService does by looking for accepted ones after it has written its
\* own; no more are counted than were submitted; and what stands as ACCEPTED has
\* passed all the test cases it was run against.
THEOREM SolvedOnce == J!Spec => []SolvedCountsOnce
<1>1. JudgeInv /\ SolvedInv => SolvedCountsOnce
  <2> SUFFICES ASSUME JudgeInv, SolvedInv PROVE SolvedCountsOnce
    OBVIOUS
  <2>1. \A s \in Student : credited[s] <= 1
    BY DEF SolvedInv, RowsOfProblem, CreditedOnce
  <2> QED
    BY <2>1 DEF JudgeInv, OwnSubmissions, SolvedInv, AcceptedPassedAll, J!Alive,
                SolvedCountsOnce, J!SolvedCountsOnce
<1> QED
  BY <1>1, JudgeTypes, SolvedStart, SolvedStep, PTL DEF J!Spec

-----------------------------------------------------------------------------
(* PracticeSessions: points and marks are counted as pairs                  *)

LEMMA Pairs ==
  ASSUME NEW A, IsFiniteSet(A), NEW i, NEW m \in Nat, A \cap ({i} \X (1..m)) = {}
  PROVE  Cardinality(A \cup ({i} \X (1..m))) = Cardinality(A) + m
<1>1. IsFiniteSet(1..m) /\ Cardinality(1..m) = m
  BY FS_Interval
<1>2. IsFiniteSet({i}) /\ Cardinality({i}) = 1
  BY FS_Singleton
<1> DEFINE B == {i} \X (1..m)
<1>3. IsFiniteSet(B) /\ Cardinality(B) = m
  <2>1. IsFiniteSet(B) /\ Cardinality(B) = Cardinality({i}) * Cardinality(1..m)
    BY <1>1, <1>2, FS_Product
  <2> QED
    BY <1>1, <1>2, <2>1
<1>4. A \cap B = {}
  OBVIOUS
<1> HIDE DEF B
<1>5. Cardinality(A \cup B) = Cardinality(A) + Cardinality(B) - Cardinality(A \cap B)
  BY <1>3, FS_Union
<1>6. Cardinality(A \cap B) = 0 /\ Cardinality(A) \in Nat
  BY <1>4, FS_EmptySet, FS_CardinalityType
<1>7. Cardinality(A \cup B) = Cardinality(A) + m
  BY <1>3, <1>5, <1>6
<1> QED
  BY <1>7 DEF B

LEMMA PairsFinite ==
  \A items \in SUBSET P!Item : IsFiniteSet(items \X (1..5))
<1>1. IsFiniteSet(P!Item)
  BY PracticeAssumption, SameCount DEF P!ConstantsAssumption, P!Item
<1>2. \A n \in Nat : IsFiniteSet(1..n)
  BY FS_Interval
<1>3. IsFiniteSet(1..5)
  BY <1>2
<1> QED
  BY <1>1, <1>3, FS_Subset, FS_Product

\* What a session may bring, item by item.
LEMMA MaxScores ==
  ASSUME NEW items \in SUBSET P!Item
  PROVE  /\ P!MaxScore(items) \in Nat
         /\ \A part1 \in SUBSET items : P!MaxScore(part1) <= P!MaxScore(items)
         /\ \A i \in P!Item \ items : P!MaxScore(items \cup {i}) = P!MaxScore(items) + P!Worth(i)
<1>1. \A some \in SUBSET P!Item : IsFiniteSet(P!Points(some)) /\ P!MaxScore(some) = Cardinality(P!Points(some))
  BY PairsFinite, SameCount, FS_Subset DEF P!Points, P!MaxScore
<1>2. P!MaxScore(items) \in Nat
  BY <1>1, FS_CardinalityType
<1>3. ASSUME NEW part1 \in SUBSET items PROVE P!MaxScore(part1) <= P!MaxScore(items)
  <2>1. P!Points(part1) \subseteq P!Points(items)
    BY DEF P!Points
  <2> QED
    BY <1>1, <2>1, FS_Subset
<1>4. ASSUME NEW i \in P!Item \ items
      PROVE  P!MaxScore(items \cup {i}) = P!MaxScore(items) + P!Worth(i)
  <2>1. P!Worth(i) \in 0..5
    BY DEF P!Worth
  <2>2. P!Points(items \cup {i}) = P!Points(items) \cup ({i} \X (1..P!Worth(i)))
    <3>1. \A k \in 1..5 : k <= P!Worth(i) <=> k \in 1..P!Worth(i)
      BY <2>1
    <3>2. 1..P!Worth(i) \subseteq 1..5
      BY <2>1
    <3> QED
      BY <3>1, <3>2 DEF P!Points
  <2>3. P!Points(items) \cap ({i} \X (1..P!Worth(i))) = {}
    BY DEF P!Points
  <2>4. Cardinality(P!Points(items) \cup ({i} \X (1..P!Worth(i)))) = Cardinality(P!Points(items)) + P!Worth(i)
    <3>1. IsFiniteSet(P!Points(items)) /\ P!Worth(i) \in Nat
      BY <1>1, <2>1
    <3> QED
      BY <2>3, <3>1, Pairs, Zenon
  <2> QED
    BY <1>1, <2>2, <2>4
<1> QED
  BY <1>2, <1>3, <1>4

\* What the marks add up to, item by item.
LEMMA MarkSums ==
  ASSUME NEW items \in SUBSET P!Item, NEW mark
  PROVE  /\ P!MarkSum(items, mark) \in Nat
         /\ (\A i \in items : mark[i] = None) => P!MarkSum(items, mark) = 0
         /\ \A more : (\A i \in items : more[i] = mark[i]) => P!MarkSum(items, more) = P!MarkSum(items, mark)
         /\ \A i \in P!Item \ items : mark[i] \in 0..5 =>
              P!MarkSum(items \cup {i}, mark) = P!MarkSum(items, mark) + mark[i]
<1>1. \A some \in SUBSET P!Item :
        IsFiniteSet(P!Marked(some, mark)) /\ P!MarkSum(some, mark) = Cardinality(P!Marked(some, mark))
  BY PairsFinite, SameCount, FS_Subset DEF P!Marked, P!MarkSum
<1>2. P!MarkSum(items, mark) \in Nat
  BY <1>1, FS_CardinalityType
<1>3. ASSUME \A i \in items : mark[i] = None PROVE P!MarkSum(items, mark) = 0
  <2>1. P!Marked(items, mark) = {}
    BY <1>3 DEF P!Marked
  <2> QED
    BY <1>1, <2>1, FS_EmptySet
<1>4. ASSUME NEW more, \A i \in items : more[i] = mark[i]
      PROVE  P!MarkSum(items, more) = P!MarkSum(items, mark)
  <2>1. P!Marked(items, more) = P!Marked(items, mark)
    BY <1>4 DEF P!Marked
  <2> QED
    BY <2>1 DEF P!MarkSum
<1>5. ASSUME NEW i \in P!Item \ items, mark[i] \in 0..5
      PROVE  P!MarkSum(items \cup {i}, mark) = P!MarkSum(items, mark) + mark[i]
  <2>1. mark[i] # None
    BY <1>5, PracticeAssumption DEF P!ConstantsAssumption
  <2>2. P!Marked(items \cup {i}, mark) = P!Marked(items, mark) \cup ({i} \X (1..mark[i]))
    <3>1. \A k \in 1..5 : k <= mark[i] <=> k \in 1..mark[i]
      BY <1>5
    <3>2. 1..mark[i] \subseteq 1..5
      BY <1>5
    <3> QED
      BY <2>1, <3>1, <3>2 DEF P!Marked
  <2>3. P!Marked(items, mark) \cap ({i} \X (1..mark[i])) = {}
    BY DEF P!Marked
  <2>4. Cardinality(P!Marked(items, mark) \cup ({i} \X (1..mark[i]))) = Cardinality(P!Marked(items, mark)) + mark[i]
    <3>1. IsFiniteSet(P!Marked(items, mark)) /\ mark[i] \in Nat
      BY <1>1, <1>5
    <3> QED
      BY <2>3, <3>1, Pairs, Zenon
  <2> QED
    BY <1>1, <2>2, <2>4
<1> QED
  BY <1>2, <1>3, <1>4, <1>5

\* Attendance brings at most ten points.
LEMMA PointsBound ==
  ASSUME NEW score \in Nat, NEW max \in Nat, score <= max
  PROVE  P!CompletionPoints(score, max) \in 0..10
<1>1. CASE max = 0
  BY <1>1 DEF P!CompletionPoints
<1>2. CASE max # 0
  <2> DEFINE d == 2 * max
             n == 2 * (2 * max + 8 * score) + max
             q == n \div d
  <2>1. d \in Nat /\ d > 0 /\ n \in Nat /\ n < 11 * d
    BY <1>2
  <2> HIDE DEF d, n
  <2>2. q \in Int /\ d * q <= n /\ n < d * (q + 1)
    BY <2>1
  <2> HIDE DEF q
  <2>3. q < 11
    <3> SUFFICES ASSUME q >= 11 PROVE FALSE
      BY <2>2
    <3>1. d * q >= d * 11
      BY <2>1, <2>2
    <3> QED
      BY <2>1, <2>2, <3>1
  <2>4. q >= 0
    <3> SUFFICES ASSUME q + 1 <= 0 PROVE FALSE
      BY <2>2
    <3>1. d * (q + 1) <= 0
      BY <2>1, <2>2
    <3> QED
      BY <2>1, <2>2, <3>1
  <2> QED
    BY <1>2, <2>2, <2>3, <2>4 DEF P!CompletionPoints, q, n, d
<1> QED
  BY <1>1, <1>2

-----------------------------------------------------------------------------
(* PracticeSessions: types, and what each process holds                     *)

\* Only what has been answered is marked.
MarksAreAnswered ==
  \A s \in P!Session, i \in P!Item :
    sessions[s].mark[i] # None => sessions[s].answer[i] # None

\* A process has a session that was started, and its total is within what the
\* items it has graded may bring.  The job only completes sessions.
Holds(p) ==
  LET me == proc[p]
      row == sessions[me.s]
  IN
  /\ me.pc \notin {"idle", "batch"} => row.status # "none"
  /\ me.pc = "grade" =>
       /\ me.todo \subseteq row.items
       /\ me.total <= P!MaxScore(row.items \ me.todo)
       /\ \A i \in me.todo : row.answer[i] # None
  /\ me.pc \in {"attendance", "award"} => me.total <= P!MaxScore(row.items)
  /\ me.pc = "award" => row.booking \in Booking
  /\ p = Cron => me.pc \notin {"answer", "extend", "abort"}

PracticeInv == P!TypeOK /\ MarksAreAnswered /\ \A p \in P!Process : Holds(p)

\* What a step does not take from a session that was started.
Kept ==
  \A s \in P!Session : sessions[s].status # "none" =>
    /\ sessions'[s].status # "none"
    /\ sessions'[s].items = sessions[s].items
    /\ sessions'[s].booking = sessions[s].booking
    /\ \A i \in P!Item : sessions[s].answer[i] # None => sessions'[s].answer[i] # None

LEMMA PracticeLocals ==
  ASSUME NEW x \in P!Local
  PROVE  /\ x.pc \in {"idle", "answer", "grade", "attendance", "award", "extend", "abort", "batch"}
         /\ x.pc \notin {"idle", "batch"} => x.s \in P!Session
         /\ x.pc = "answer" => x.item \in P!Item /\ x.value \in {"right", "wrong"}
         /\ x.pc = "grade" => x \in [pc : {"grade"}, s : P!Session, todo : SUBSET P!Item,
                                     seen : [P!Item -> {"right", "wrong", None}],
                                     total : Nat, rest : SUBSET P!Session]
         /\ x.pc \in {"attendance", "award"} =>
              x \in [pc : {"attendance", "award"}, s : P!Session, total : Nat, rest : SUBSET P!Session]
         /\ x.pc = "extend" => x.duration \in 1..Longest
         /\ x.pc = "batch" => x.rest \subseteq P!Session
  BY DEF P!Local, P!Idle

LEMMA PracticeIdle == P!Idle \in P!Local /\ P!Idle.pc = "idle"
  BY DEF P!Local, P!Idle

\* What the processes that do nothing hold.
LEMMA HoldsStill ==
  ASSUME PracticeInv, Kept, NEW p \in P!Process, proc'[p] = proc[p]
  PROVE  Holds(p)'
<1>1. Holds(p) /\ proc[p] \in P!Local
  BY DEF PracticeInv, P!TypeOK
<1>2. CASE proc[p].pc \in {"idle", "batch"}
  BY <1>2 DEF Holds
<1>3. CASE proc[p].pc \notin {"idle", "batch"}
  <2>1. proc[p].s \in P!Session /\ sessions[proc[p].s].status # "none"
    BY <1>1, <1>3, PracticeLocals DEF Holds
  <2>2. /\ sessions'[proc[p].s].status # "none"
        /\ sessions'[proc[p].s].items = sessions[proc[p].s].items
        /\ sessions'[proc[p].s].booking = sessions[proc[p].s].booking
        /\ \A i \in P!Item : sessions[proc[p].s].answer[i] # None => sessions'[proc[p].s].answer[i] # None
    BY <2>1 DEF Kept
  <2>3. proc[p].pc = "grade" => proc[p].todo \subseteq P!Item
    BY <1>1, PracticeLocals
  <2> QED
    BY <1>1, <2>2, <2>3 DEF Holds
<1> QED
  BY <1>2, <1>3

\* A process moves on, with or without a change of the sessions.
LEMMA PracticeMoves ==
  ASSUME PracticeInv, NEW p \in P!Process, NEW next \in P!Local, P!Goto(p, next), Kept,
         sessions' \in [P!Session -> P!Row], MarksAreAnswered', Holds(p)',
         points' \in [Booking -> Nat], failures' \in 0..MaxFailures, together' \subseteq P!Session
  PROVE  PracticeInv'
<1>1. /\ proc' \in [P!Process -> P!Local]
      /\ \A q \in P!Process : q # p => proc'[q] = proc[q]
  BY DEF PracticeInv, P!TypeOK, P!Goto
<1>2. \A q \in P!Process : q # p => Holds(q)'
  BY <1>1, HoldsStill
<1> QED
  BY <1>1, <1>2 DEF PracticeInv, P!TypeOK

LEMMA PracticeReads ==
  ASSUME PracticeInv, NEW p \in P!Process, NEW next \in P!Local, P!Goto(p, next), sessions' = sessions,
         Holds(p)', points' = points, failures' \in 0..MaxFailures, together' \subseteq P!Session
  PROVE  PracticeInv'
<1>1. Kept
  BY DEF Kept
<1>2. sessions' \in [P!Session -> P!Row] /\ MarksAreAnswered' /\ points' \in [Booking -> Nat]
  BY DEF PracticeInv, P!TypeOK, MarksAreAnswered
<1> QED
  BY <1>1, <1>2, PracticeMoves

\* A process that has finished.
LEMMA PracticeFinishes ==
  ASSUME PracticeInv, NEW p \in P!Process, NEW rest \in SUBSET P!Session, P!Finish(p, rest)
  PROVE  /\ (IF p = Cron THEN [pc |-> "batch", rest |-> rest] ELSE P!Idle) \in P!Local
         /\ P!Goto(p, IF p = Cron THEN [pc |-> "batch", rest |-> rest] ELSE P!Idle)
         /\ proc'[p].pc \in {"idle", "batch"}
         /\ Holds(p)'
<1>1. [pc |-> "batch", rest |-> rest] \in P!Local
  BY DEF P!Local
<1>2. proc'[p].pc \in {"idle", "batch"}
  BY PracticeIdle DEF P!Finish, P!Goto, PracticeInv, P!TypeOK
<1>3. Holds(p)'
  BY <1>2 DEF Holds
<1> QED
  BY <1>1, <1>2, <1>3, PracticeIdle DEF P!Finish

LEMMA CompleteReads ==
  ASSUME PracticeInv, NEW p \in P!Process, NEW s \in P!Session, NEW rest \in SUBSET P!Session,
         P!Running(s), P!CompleteRead(p, s, rest)
  PROVE  PracticeInv'
<1> DEFINE row == sessions[s]
           answered == {i \in row.items : row.answer[i] # None}
           next == [pc |-> "grade", s |-> s, todo |-> answered, seen |-> row.answer,
                    total |-> 0, rest |-> rest]
<1>1. row \in P!Row /\ row.status # "none"
  BY DEF PracticeInv, P!TypeOK, P!Running
<1>2. row.items \subseteq P!Item /\ row.answer \in [P!Item -> {"right", "wrong", None}]
  BY <1>1 DEF P!Row
<1>3. next \in P!Local
  BY <1>2 DEF P!Local
<1>4. P!Goto(p, next) /\ UNCHANGED <<sessions, points, failures>>
      /\ together' \in {together, together \cup {s}}
  BY DEF P!CompleteRead
<1>5. proc'[p] = next
  BY <1>4 DEF P!Goto, PracticeInv, P!TypeOK
<1>6. 0 <= P!MaxScore(row.items \ answered)
  BY <1>2, MaxScores
<1>7. Holds(p)'
  BY <1>1, <1>4, <1>5, <1>6 DEF Holds
<1> QED
  BY <1>3, <1>4, <1>7, PracticeReads DEF PracticeInv, P!TypeOK

LEMMA GradeSteps ==
  ASSUME PracticeInv, NEW p \in P!Process, NEW i \in P!Item, P!Grade(p, i)
  PROVE  PracticeInv' /\ Kept
<1> DEFINE me == proc[p]
           row == sessions[me.s]
<1>1. PICK mark \in (IF me.seen[i] = "right" THEN {0, P!Worth(i)} ELSE {0}) :
        /\ sessions' = [sessions EXCEPT ![me.s].mark[i] = mark]
        /\ P!Goto(p, [me EXCEPT !.todo = me.todo \ {i}, !.total = me.total + mark])
  BY DEF P!Grade, P!AddMark
<1>2. me.pc = "grade" /\ i \in me.todo /\ UNCHANGED <<points, failures, together>>
  BY DEF P!Grade
<1>3. mark \in 0..5 /\ mark <= P!Worth(i) /\ P!Worth(i) \in 0..5
  BY <1>1 DEF P!Worth
<1>4. me \in [pc : {"grade"}, s : P!Session, todo : SUBSET P!Item,
              seen : [P!Item -> {"right", "wrong", None}], total : Nat, rest : SUBSET P!Session]
  BY <1>2, PracticeLocals DEF PracticeInv, P!TypeOK
<1>5. /\ row.status # "none" /\ me.todo \subseteq row.items
      /\ me.total <= P!MaxScore(row.items \ me.todo)
      /\ \A j \in me.todo : row.answer[j] # None
  BY <1>2 DEF PracticeInv, Holds
<1>6. row \in P!Row /\ row.items \subseteq P!Item
  BY <1>4 DEF PracticeInv, P!TypeOK, P!Row
<1> DEFINE next == [me EXCEPT !.todo = me.todo \ {i}, !.total = me.total + mark]
           new == [row EXCEPT !.mark[i] = mark]
<1>7. /\ next \in P!Local /\ next.pc = "grade" /\ next.s = me.s /\ next.todo = me.todo \ {i}
      /\ next.total = me.total + mark
  <2>1. next \in [pc : {"grade"}, s : P!Session, todo : SUBSET P!Item,
                  seen : [P!Item -> {"right", "wrong", None}], total : Nat, rest : SUBSET P!Session]
    <3>1. me.todo \ {i} \in SUBSET P!Item /\ me.total + mark \in Nat
      BY <1>3, <1>4
    <3> QED
      BY <1>4, <3>1
  <2> QED
    BY <1>4, <2>1 DEF P!Local
<1>8. /\ new \in P!Row /\ new.status = row.status /\ new.items = row.items
      /\ new.booking = row.booking /\ new.answer = row.answer
      /\ new.mark = [row.mark EXCEPT ![i] = mark]
  BY <1>3, <1>6 DEF P!Row
<1>9. /\ sessions' \in [P!Session -> P!Row] /\ sessions'[me.s] = new
      /\ \A s \in P!Session : s # me.s => sessions'[s] = sessions[s]
  BY <1>1, <1>4, <1>8 DEF PracticeInv, P!TypeOK
<1>10. \A j \in P!Item : new.mark[j] # None => j = i \/ row.mark[j] # None
  BY <1>6, <1>8 DEF P!Row
<1> HIDE DEF new, next
<1>11. Kept
  BY <1>8, <1>9 DEF Kept
<1>12. MarksAreAnswered'
  <2>1. \A j \in P!Item : new.mark[j] # None => new.answer[j] # None
    BY <1>2, <1>4, <1>5, <1>8, <1>10 DEF MarksAreAnswered, PracticeInv
  <2> QED
    BY <1>9, <2>1 DEF MarksAreAnswered, PracticeInv
<1>13. P!Goto(p, next) /\ proc'[p] = next
  BY <1>1 DEF next, P!Goto, PracticeInv, P!TypeOK
<1>14. me.total + mark <= P!MaxScore(row.items \ (me.todo \ {i}))
  <2>1. row.items \ (me.todo \ {i}) = (row.items \ me.todo) \cup {i}
    BY <1>2, <1>5
  <2>2. P!MaxScore(row.items \ me.todo) \in Nat
        /\ P!MaxScore((row.items \ me.todo) \cup {i}) = P!MaxScore(row.items \ me.todo) + P!Worth(i)
    BY <1>2, <1>6, MaxScores
  <2>3. P!MaxScore(row.items \ (me.todo \ {i})) = P!MaxScore(row.items \ me.todo) + P!Worth(i)
    BY <2>1, <2>2
  <2>4. me.total \in Nat
    BY <1>4
  <2> QED
    BY <1>3, <1>5, <2>2, <2>3, <2>4
<1>15. Holds(p)'
  <2>1. /\ proc'[p].pc = "grade" /\ proc'[p].s = me.s /\ proc'[p].todo = me.todo \ {i}
        /\ proc'[p].total = me.total + mark
    BY <1>7, <1>13
  <2>2. /\ sessions'[me.s].status # "none" /\ sessions'[me.s].items = row.items
        /\ sessions'[me.s].answer = row.answer
    BY <1>5, <1>8, <1>9
  <2> QED
    BY <1>5, <1>14, <2>1, <2>2 DEF Holds
<1> QED
  BY <1>2, <1>7, <1>9, <1>11, <1>12, <1>13, <1>15, PracticeMoves DEF PracticeInv, P!TypeOK

LEMMA CompleteWrites ==
  ASSUME PracticeInv, NEW p \in P!Process, P!CompleteWrite(p)
  PROVE  PracticeInv' /\ Kept
<1> DEFINE me == proc[p]
           row == sessions[me.s]
           next == [pc |-> "attendance", s |-> me.s, total |-> me.total, rest |-> me.rest]
           new == [row EXCEPT !.status = "COMPLETED", !.score = me.total]
<1>1. /\ me.pc = "grade" /\ me.todo = {} /\ UNCHANGED <<points, failures, together>>
      /\ P!Goto(p, next)
      /\ sessions' = [sessions EXCEPT ![me.s].status = "COMPLETED", ![me.s].score = me.total]
  BY DEF P!CompleteWrite
<1>2. me.s \in P!Session /\ me.total \in Nat /\ me.rest \subseteq P!Session
  BY <1>1, PracticeLocals DEF PracticeInv, P!TypeOK
<1>3. row \in P!Row /\ row.items \subseteq P!Item
  BY <1>2 DEF PracticeInv, P!TypeOK, P!Row
<1>4. row.status # "none" /\ me.total <= P!MaxScore(row.items)
  <2>1. row.items \ {} = row.items
    OBVIOUS
  <2> QED
    BY <1>1, <2>1 DEF PracticeInv, Holds
<1>5. me.total \in 0..P!MaxScore(P!Item)
  <2>1. P!MaxScore(row.items) <= P!MaxScore(P!Item) /\ P!MaxScore(row.items) \in Nat
        /\ P!MaxScore(P!Item) \in Nat
    BY <1>3, MaxScores
  <2> QED
    BY <1>2, <1>4, <2>1
<1>6. /\ new \in P!Row /\ new.status = "COMPLETED" /\ new.items = row.items
      /\ new.booking = row.booking /\ new.answer = row.answer /\ new.mark = row.mark
  BY <1>3, <1>5 DEF P!Row
<1>7. /\ sessions' \in [P!Session -> P!Row] /\ sessions'[me.s] = new
      /\ \A s \in P!Session : s # me.s => sessions'[s] = sessions[s]
  BY <1>1, <1>2, <1>6 DEF PracticeInv, P!TypeOK
<1> HIDE DEF new
<1>8. next \in P!Local
  BY <1>2 DEF P!Local
<1>9. proc'[p] = next
  BY <1>1 DEF P!Goto, PracticeInv, P!TypeOK
<1>10. Kept
  BY <1>6, <1>7 DEF Kept
<1>11. MarksAreAnswered'
  BY <1>6, <1>7, <1>2 DEF MarksAreAnswered, PracticeInv
<1>12. Holds(p)'
  BY <1>4, <1>6, <1>7, <1>9 DEF Holds
<1> QED
  BY <1>1, <1>7, <1>8, <1>10, <1>11, <1>12, PracticeMoves DEF PracticeInv, P!TypeOK

LEMMA Attendances ==
  ASSUME PracticeInv, NEW p \in P!Process, P!Attendance(p)
  PROVE  PracticeInv'
<1> DEFINE me == proc[p]
<1>1. me.pc = "attendance" /\ UNCHANGED <<sessions, points, failures, together>>
  BY DEF P!Attendance
<1>2. me \in [pc : {"attendance", "award"}, s : P!Session, total : Nat, rest : SUBSET P!Session]
  BY <1>1, PracticeLocals DEF PracticeInv, P!TypeOK
<1>3. CASE P!Attended(sessions[me.s].booking)
  <2>1. P!Finish(p, me.rest)
    BY <1>3 DEF P!Attendance
  <2> QED
    BY <1>1, <1>2, <2>1, PracticeFinishes, PracticeReads DEF PracticeInv, P!TypeOK
<1>4. CASE ~P!Attended(sessions[me.s].booking)
  <2> DEFINE next == [me EXCEPT !.pc = "award"]
  <2>1. P!Goto(p, next)
    BY <1>4 DEF P!Attendance
  <2>2. next \in P!Local /\ next.pc = "award" /\ next.s = me.s /\ next.total = me.total
    BY <1>2 DEF P!Local
  <2>3. proc'[p] = next
    BY <2>1 DEF P!Goto, PracticeInv, P!TypeOK
  <2>4. /\ sessions[me.s].booking \in Booking /\ sessions[me.s].status # "none"
        /\ me.total <= P!MaxScore(sessions[me.s].items)
    BY <1>1, <1>4 DEF P!Attended, PracticeInv, Holds
  <2> HIDE DEF next
  <2>5. Holds(p)'
    BY <1>1, <2>2, <2>3, <2>4 DEF Holds
  <2> QED
    BY <1>1, <2>1, <2>2, <2>5, PracticeReads DEF PracticeInv, P!TypeOK
<1> QED
  BY <1>3, <1>4

\* At most ten points are written, for the booking of the session.
LEMMA Awards ==
  ASSUME PracticeInv, NEW p \in P!Process, P!Award(p)
  PROVE  /\ PracticeInv'
         /\ proc[p].pc = "award" /\ proc'[p].pc \in {"idle", "batch"} /\ sessions' = sessions
         /\ \E n \in 0..10 : points' = [points EXCEPT ![sessions[proc[p].s].booking] = @ + n]
<1> DEFINE me == proc[p]
           row == sessions[me.s]
           n == P!CompletionPoints(me.total, P!MaxScore(row.items))
<1>1. /\ me.pc = "award" /\ UNCHANGED <<sessions, failures, together>> /\ P!Finish(p, me.rest)
      /\ points' = [points EXCEPT ![row.booking] = @ + n]
  BY DEF P!Award
<1>2. me.s \in P!Session /\ me.total \in Nat /\ me.rest \in SUBSET P!Session
  BY <1>1, PracticeLocals DEF PracticeInv, P!TypeOK
<1>3. row.items \in SUBSET P!Item
  BY <1>2 DEF PracticeInv, P!TypeOK, P!Row
<1>4. me.total <= P!MaxScore(row.items) /\ row.booking \in Booking
  BY <1>1 DEF PracticeInv, Holds
<1>5. n \in 0..10
  BY <1>2, <1>3, <1>4, MaxScores, PointsBound
<1>6. points' \in [Booking -> Nat]
  <2>1. points[row.booking] \in Nat /\ points[row.booking] + n \in Nat
    BY <1>4, <1>5 DEF PracticeInv, P!TypeOK
  <2> HIDE DEF n
  <2> QED
    BY <1>1, <1>4, <2>1 DEF PracticeInv, P!TypeOK
<1>7. Kept /\ sessions' \in [P!Session -> P!Row] /\ MarksAreAnswered'
  BY <1>1 DEF Kept, PracticeInv, P!TypeOK, MarksAreAnswered
<1>8. PracticeInv'
  BY <1>1, <1>2, <1>6, <1>7, PracticeFinishes, PracticeMoves DEF PracticeInv, P!TypeOK
<1>9. proc'[p].pc \in {"idle", "batch"}
  BY <1>1, <1>2, PracticeFinishes
<1> QED
  BY <1>1, <1>5, <1>8, <1>9

\* Requests that read a session in progress, to write to it later.
LEMMA RequestsRead ==
  ASSUME PracticeInv, NEW p \in P!Process, NEW s \in P!Session,
         \/ P!AbortRead(p, s)
         \/ \E minutes \in 1..Longest : P!ExtendRead(p, s, minutes)
         \/ \E i \in P!Item, value \in {"right", "wrong"} : P!AnswerRead(p, s, i, value)
  PROVE  PracticeInv' /\ UNCHANGED <<sessions, points, together>>
         /\ proc'[p].pc \in {"answer", "extend", "abort"}
<1>1. /\ sessions[s].status # "none" /\ sessions[s] \in P!Row
      /\ UNCHANGED <<sessions, points, failures, together>>
  BY DEF P!AbortRead, P!ExtendRead, P!AnswerRead, P!Running, PracticeInv, P!TypeOK
<1>2. \E next \in P!Local : P!Goto(p, next) /\ next.pc \in {"answer", "extend", "abort"} /\ next.s = s
  <2>1. CASE P!AbortRead(p, s)
    <3> DEFINE next == [pc |-> "abort", s |-> s]
    <3>1. next \in P!Local /\ P!Goto(p, next)
      BY <2>1 DEF P!Local, P!AbortRead
    <3> QED
      BY <3>1
  <2>2. ASSUME NEW minutes \in 1..Longest, P!ExtendRead(p, s, minutes)
        PROVE  \E next \in P!Local : P!Goto(p, next) /\ next.pc \in {"answer", "extend", "abort"} /\ next.s = s
    <3> DEFINE duration == sessions[s].duration + minutes
               next == [pc |-> "extend", s |-> s, duration |-> duration]
    <3>1. duration \in 1..Longest
      <4>1. sessions[s].duration \in 0..Longest
        BY <1>1 DEF P!Row
      <4>2. Longest \in Nat
        BY PracticeAssumption DEF P!ConstantsAssumption
      <4> QED
        BY <2>2, <4>1, <4>2 DEF P!ExtendRead
    <3> HIDE DEF duration
    <3>2. next \in P!Local
      BY <3>1 DEF P!Local
    <3>3. P!Goto(p, next)
      BY <2>2 DEF P!ExtendRead, duration
    <3> QED
      BY <3>2, <3>3
  <2>3. ASSUME NEW i \in P!Item, NEW value \in {"right", "wrong"}, P!AnswerRead(p, s, i, value)
        PROVE  \E next \in P!Local : P!Goto(p, next) /\ next.pc \in {"answer", "extend", "abort"} /\ next.s = s
    <3> DEFINE next == [pc |-> "answer", s |-> s, item |-> i, value |-> value]
    <3>1. next \in P!Local /\ P!Goto(p, next)
      BY <2>3 DEF P!Local, P!AnswerRead
    <3> QED
      BY <3>1
  <2> QED
    BY <2>1, <2>2, <2>3
<1>3. PICK next \in P!Local : P!Goto(p, next) /\ next.pc \in {"answer", "extend", "abort"} /\ next.s = s
  BY <1>2
<1>4. proc'[p] = next
  BY <1>3 DEF P!Goto, PracticeInv, P!TypeOK
<1>5. p # Cron
  BY DEF P!AbortRead, P!ExtendRead, P!AnswerRead
<1>6. Holds(p)'
  BY <1>1, <1>3, <1>4, <1>5 DEF Holds
<1> QED
  BY <1>1, <1>3, <1>4, <1>6, PracticeReads DEF PracticeInv, P!TypeOK

\* ... and that write to it.
LEMMA RequestsWrite ==
  ASSUME PracticeInv, NEW p \in P!Process, P!AnswerWrite(p) \/ P!ExtendWrite(p) \/ P!AbortWrite(p)
  PROVE  /\ PracticeInv' /\ Kept /\ UNCHANGED <<points, together>>
         /\ proc'[p].pc = "idle" /\ \A q \in P!Process : q # p => proc'[q] = proc[q]
         /\ \A s \in P!Session : /\ sessions'[s].mark = sessions[s].mark
                                 /\ sessions'[s].score = sessions[s].score
                                 /\ sessions'[s].status \in {sessions[s].status, "ABANDONED"}
<1> DEFINE me == proc[p]
           row == sessions[me.s]
<1>1. me.pc \in {"answer", "extend", "abort"} /\ UNCHANGED <<points, failures, together>>
      /\ P!Goto(p, P!Idle)
  BY DEF P!AnswerWrite, P!ExtendWrite, P!AbortWrite
<1>2. me \in P!Local /\ me.s \in P!Session
  BY <1>1, PracticeLocals DEF PracticeInv, P!TypeOK
<1>3. row \in P!Row /\ row.status # "none"
  BY <1>1, <1>2 DEF PracticeInv, P!TypeOK, Holds
<1>4. \E new \in P!Row :
        /\ sessions' = [sessions EXCEPT ![me.s] = new]
        /\ new.status \in {row.status, "ABANDONED"} /\ new.items = row.items
        /\ new.booking = row.booking /\ new.mark = row.mark /\ new.score = row.score
        /\ \A i \in P!Item : row.answer[i] # None => new.answer[i] # None
  <2>1. CASE P!AnswerWrite(p)
    <3>1. me.item \in P!Item /\ me.value \in {"right", "wrong"}
      BY <1>2, <2>1, PracticeLocals DEF P!AnswerWrite
    <3> DEFINE new == [row EXCEPT !.answer[me.item] = me.value]
    <3>2. sessions' = [sessions EXCEPT ![me.s] = new]
      BY <2>1 DEF P!AnswerWrite
    <3>3. /\ new \in P!Row /\ new.status = row.status /\ new.items = row.items
          /\ new.booking = row.booking /\ new.mark = row.mark /\ new.score = row.score
          /\ new.answer = [row.answer EXCEPT ![me.item] = me.value]
      BY <1>3, <3>1 DEF P!Row
    <3>4. me.value # None
      BY <3>1, PracticeAssumption DEF P!ConstantsAssumption
    <3>5. \A i \in P!Item : row.answer[i] # None => new.answer[i] # None
      BY <1>3, <3>1, <3>3, <3>4 DEF P!Row
    <3> HIDE DEF new
    <3> QED
      BY <3>2, <3>3, <3>5
  <2>2. CASE P!ExtendWrite(p)
    <3>1. me.duration \in 0..Longest
      BY <1>2, <2>2, PracticeLocals, PracticeAssumption DEF P!ExtendWrite, P!ConstantsAssumption
    <3> DEFINE new == [row EXCEPT !.duration = me.duration]
    <3>2. sessions' = [sessions EXCEPT ![me.s] = new]
      BY <2>2 DEF P!ExtendWrite, P!Extended
    <3>3. /\ new \in P!Row /\ new.status = row.status /\ new.items = row.items
          /\ new.booking = row.booking /\ new.mark = row.mark /\ new.score = row.score
          /\ new.answer = row.answer
      BY <1>3, <3>1 DEF P!Row
    <3> HIDE DEF new
    <3> QED
      BY <3>2, <3>3
  <2>3. CASE P!AbortWrite(p)
    <3> DEFINE new == [row EXCEPT !.status = "ABANDONED"]
    <3>2. sessions' = [sessions EXCEPT ![me.s] = new]
      BY <2>3 DEF P!AbortWrite
    <3>3. /\ new \in P!Row /\ new.status = "ABANDONED" /\ new.items = row.items
          /\ new.booking = row.booking /\ new.mark = row.mark /\ new.score = row.score
          /\ new.answer = row.answer
      BY <1>3 DEF P!Row
    <3> HIDE DEF new
    <3> QED
      BY <3>2, <3>3
  <2> QED
    BY <2>1, <2>2, <2>3
<1>5. PICK new \in P!Row :
        /\ sessions' = [sessions EXCEPT ![me.s] = new]
        /\ new.status \in {row.status, "ABANDONED"} /\ new.items = row.items
        /\ new.booking = row.booking /\ new.mark = row.mark /\ new.score = row.score
        /\ \A i \in P!Item : row.answer[i] # None => new.answer[i] # None
  BY <1>4
<1>6. /\ sessions' \in [P!Session -> P!Row] /\ sessions'[me.s] = new
      /\ \A s \in P!Session : s # me.s => sessions'[s] = sessions[s]
  BY <1>2, <1>5 DEF PracticeInv, P!TypeOK
<1>7. Kept
  BY <1>3, <1>5, <1>6 DEF Kept
<1>8. MarksAreAnswered'
  BY <1>2, <1>5, <1>6 DEF MarksAreAnswered, PracticeInv
<1>9. proc'[p].pc = "idle" /\ \A q \in P!Process : q # p => proc'[q] = proc[q]
  BY <1>1, PracticeIdle DEF P!Goto, PracticeInv, P!TypeOK
<1>10. Holds(p)'
  BY <1>9 DEF Holds
<1>11. PracticeInv'
  BY <1>1, <1>6, <1>7, <1>8, <1>10, PracticeIdle, PracticeMoves DEF PracticeInv, P!TypeOK
<1> QED
  BY <1>1, <1>5, <1>6, <1>7, <1>9, <1>11

\* The job's own steps, and calls that fail.
LEMMA JobSteps ==
  ASSUME PracticeInv,
         \/ P!JobRead \/ P!JobEnd \/ \E p \in P!Process : P!Fail(p)
         \/ \E s \in P!Session : P!JobNext(s) /\ ~P!Running(s)
  PROVE  /\ PracticeInv' /\ UNCHANGED <<sessions, points, together>>
         /\ \E p \in P!Process : /\ proc'[p].pc \in {"idle", "batch"}
                                 /\ \A q \in P!Process : q # p => proc'[q] = proc[q]
<1>1. ASSUME NEW p \in P!Process, NEW next \in P!Local, P!Goto(p, next), next.pc \in {"idle", "batch"},
             UNCHANGED <<sessions, points, together>>, failures' \in 0..MaxFailures
      PROVE  /\ PracticeInv' /\ proc'[p].pc \in {"idle", "batch"}
             /\ \A q \in P!Process : q # p => proc'[q] = proc[q]
  <2>1. proc'[p] = next /\ \A q \in P!Process : q # p => proc'[q] = proc[q]
    BY <1>1 DEF P!Goto, PracticeInv, P!TypeOK
  <2>2. Holds(p)'
    BY <1>1, <2>1 DEF Holds
  <2> QED
    BY <1>1, <2>1, <2>2, PracticeReads DEF PracticeInv, P!TypeOK
<1>2. Cron \in P!Process /\ failures \in 0..MaxFailures
  BY DEF P!Process, PracticeInv, P!TypeOK
<1>3. \A rest \in SUBSET P!Session : [pc |-> "batch", rest |-> rest] \in P!Local
  BY DEF P!Local
<1>4. CASE P!JobRead
  <2>1. P!Due \in SUBSET P!Session
    BY DEF P!Due
  <2> QED
    BY <1>1, <1>2, <1>3, <1>4, <2>1 DEF P!JobRead
<1>5. CASE P!JobEnd
  BY <1>1, <1>2, <1>5, PracticeIdle DEF P!JobEnd
<1>6. ASSUME NEW p \in P!Process, P!Fail(p)
      PROVE  /\ PracticeInv' /\ UNCHANGED <<sessions, points, together>>
             /\ proc'[p].pc \in {"idle", "batch"} /\ \A q \in P!Process : q # p => proc'[q] = proc[q]
  <2> DEFINE rest == IF p = Cron THEN proc[p].rest ELSE {}
  <2>1. proc[p].pc \notin {"idle", "batch"} /\ UNCHANGED <<sessions, points, together>>
        /\ failures < MaxFailures /\ failures' = failures + 1 /\ P!Finish(p, rest)
    BY <1>6 DEF P!Fail
  <2>2. failures' \in 0..MaxFailures
    BY <1>2, <2>1, PracticeAssumption DEF P!ConstantsAssumption
  <2> DEFINE next == IF p = Cron THEN [pc |-> "batch", rest |-> rest] ELSE P!Idle
  <2>3. P!Goto(p, next)
    BY <2>1 DEF P!Finish
  <2>4. CASE p # Cron
    BY <1>1, <2>1, <2>2, <2>3, <2>4, PracticeIdle
  <2>5. CASE p = Cron
    <3>1. proc[p].pc \in {"grade", "attendance", "award"} => proc[p].rest \in SUBSET P!Session
      BY PracticeLocals DEF PracticeInv, P!TypeOK
    <3>2. CASE proc[p].pc \in {"grade", "attendance", "award"}
      BY <1>1, <1>3, <2>1, <2>2, <2>3, <2>5, <3>1, <3>2
    <3>3. proc[p].pc \in {"grade", "attendance", "award"}
      BY <2>1, <2>5, PracticeLocals DEF PracticeInv, P!TypeOK, Holds
    <3> QED
      BY <3>2, <3>3
  <2> QED
    BY <2>4, <2>5
<1>7. ASSUME NEW s \in P!Session, P!JobNext(s), ~P!Running(s)
      PROVE  /\ PracticeInv' /\ UNCHANGED <<sessions, points, together>>
             /\ proc'[Cron].pc \in {"idle", "batch"} /\ \A q \in P!Process : q # Cron => proc'[q] = proc[q]
  <2> DEFINE next == [proc[Cron] EXCEPT !.rest = proc[Cron].rest \ {s}]
  <2>1. proc[Cron].pc = "batch" /\ P!Goto(Cron, next)
        /\ UNCHANGED <<sessions, points, failures, together>>
    BY <1>7 DEF P!JobNext
  <2>2. next \in P!Local /\ next.pc = "batch"
    BY <1>2, <2>1 DEF PracticeInv, P!TypeOK, P!Local, P!Idle
  <2> HIDE DEF next
  <2> QED
    BY <1>1, <1>2, <2>1, <2>2
<1> QED
  BY <1>2, <1>4, <1>5, <1>6, <1>7

LEMMA CreateSteps ==
  ASSUME PracticeInv, NEW p \in P!Process, NEW s \in P!Session, NEW booking \in Booking \cup {None},
         NEW duration \in 1..Longest, NEW count \in 1..MaxItems, NEW questions \in BOOLEAN,
         NEW problems \in BOOLEAN,
         P!CreateSession(p, s, booking, duration, count, questions, problems)
  PROVE  /\ PracticeInv' /\ Kept /\ UNCHANGED <<proc, points, together>>
         /\ sessions[s].status = "none" /\ sessions'[s].status = "IN_PROGRESS"
         /\ \A t \in P!Session : t # s => sessions'[t] = sessions[t]
<1>1. PICK items \in SUBSET P!Item :
        sessions' = [sessions EXCEPT ![s] = [P!NoSession EXCEPT !.status = "IN_PROGRESS",
                       !.booking = booking, !.duration = duration, !.items = items]]
  BY DEF P!CreateSession, P!Picks, P!Item
<1>2. sessions[s].status = "none" /\ UNCHANGED <<points, proc, failures, together>>
  BY DEF P!CreateSession
<1> DEFINE new == [P!NoSession EXCEPT !.status = "IN_PROGRESS", !.booking = booking,
                                      !.duration = duration, !.items = items]
<1>3. /\ new \in P!Row /\ new.status = "IN_PROGRESS"
      /\ new.mark = [i \in P!Item |-> None]
  <2>1. duration \in 0..Longest /\ 0 \in 0..(Longest + Grace + 1)
    BY PracticeAssumption DEF P!ConstantsAssumption
  <2> QED
    BY <2>1 DEF P!Row, P!NoSession
<1>4. /\ sessions' \in [P!Session -> P!Row] /\ sessions'[s] = new
      /\ \A t \in P!Session : t # s => sessions'[t] = sessions[t]
  BY <1>1, <1>3 DEF PracticeInv, P!TypeOK
<1> HIDE DEF new
<1>5. Kept
  BY <1>2, <1>4 DEF Kept
<1>6. MarksAreAnswered'
  BY <1>3, <1>4 DEF MarksAreAnswered, PracticeInv
<1>7. \A q \in P!Process : Holds(q)'
  BY <1>2, <1>5, HoldsStill
<1> QED
  BY <1>2, <1>3, <1>4, <1>5, <1>6, <1>7 DEF PracticeInv, P!TypeOK

LEMMA TickSteps ==
  ASSUME PracticeInv, P!Tick
  PROVE  /\ PracticeInv' /\ Kept /\ UNCHANGED <<proc, points, together>>
         /\ \A s \in P!Session : /\ sessions'[s].mark = sessions[s].mark
                                 /\ sessions'[s].score = sessions[s].score
                                 /\ sessions'[s].status = sessions[s].status
<1>1. /\ UNCHANGED <<points, proc, failures, together>>
      /\ sessions' = [s \in P!Session |-> IF P!Running(s) /\ ~P!Late(s)
                        THEN [sessions[s] EXCEPT !.age = @ + 1] ELSE sessions[s]]
  BY DEF P!Tick
<1>2. ASSUME NEW s \in P!Session
      PROVE  /\ sessions'[s] \in P!Row
             /\ sessions'[s].mark = sessions[s].mark /\ sessions'[s].score = sessions[s].score
             /\ sessions'[s].status = sessions[s].status /\ sessions'[s].items = sessions[s].items
             /\ sessions'[s].booking = sessions[s].booking /\ sessions'[s].answer = sessions[s].answer
  <2> DEFINE row == sessions[s]
             new == [row EXCEPT !.age = row.age + 1]
  <2>1. row \in P!Row
    BY DEF PracticeInv, P!TypeOK
  <2>2. CASE P!Running(s) /\ ~P!Late(s)
    <3>1. row.age + 1 \in 0..(Longest + Grace + 1)
      <4>1. row.age \in 0..(Longest + Grace + 1) /\ row.duration \in 0..Longest
        BY <2>1 DEF P!Row
      <4>2. Longest \in Nat /\ Grace \in Nat
        BY PracticeAssumption DEF P!ConstantsAssumption
      <4> QED
        BY <2>2, <4>1, <4>2 DEF P!Late
    <3>2. /\ new \in P!Row /\ new.status = row.status /\ new.items = row.items
          /\ new.booking = row.booking /\ new.mark = row.mark /\ new.score = row.score
          /\ new.answer = row.answer
      BY <2>1, <3>1 DEF P!Row
    <3>3. sessions'[s] = new
      BY <1>1, <2>2
    <3> HIDE DEF new
    <3> QED
      BY <3>2, <3>3
  <2>3. CASE ~(P!Running(s) /\ ~P!Late(s))
    BY <1>1, <2>1, <2>3
  <2> QED
    BY <2>2, <2>3
<1>3. sessions' \in [P!Session -> P!Row]
  <2>1. DOMAIN sessions' = P!Session /\ sessions' = [s \in P!Session |-> sessions'[s]]
    BY <1>1
  <2> QED
    BY <1>2, <2>1
<1>4. Kept
  BY <1>2 DEF Kept
<1>5. MarksAreAnswered'
  BY <1>2 DEF MarksAreAnswered, PracticeInv
<1>6. \A q \in P!Process : Holds(q)'
  BY <1>1, <1>4, HoldsStill
<1> QED
  BY <1>1, <1>2, <1>3, <1>4, <1>5, <1>6 DEF PracticeInv, P!TypeOK

LEMMA PracticeStart == P!Init => PracticeInv
<1> SUFFICES ASSUME P!Init PROVE PracticeInv
  OBVIOUS
<1>1. P!NoSession \in P!Row /\ P!NoSession.mark = [i \in P!Item |-> None]
  <2>1. 0 \in 0..Longest /\ 0 \in 0..(Longest + Grace + 1)
    BY PracticeAssumption DEF P!ConstantsAssumption
  <2> QED
    BY <2>1 DEF P!Row, P!NoSession
<1>2. P!TypeOK
  BY <1>1, PracticeIdle, PracticeAssumption DEF P!Init, P!TypeOK, P!ConstantsAssumption
<1>3. MarksAreAnswered
  BY <1>1 DEF P!Init, MarksAreAnswered
<1>4. \A p \in P!Process : Holds(p)
  BY PracticeIdle DEF P!Init, Holds
<1> QED
  BY <1>2, <1>3, <1>4 DEF PracticeInv

\* The steps there are, with the process that takes them.
Goes(p) == (\E i \in P!Item : P!Grade(p, i)) \/ P!CompleteWrite(p) \/ P!Attendance(p) \/ P!Award(p)
Reads(p, s) ==
  \/ P!AbortRead(p, s)
  \/ \E minutes \in 1..Longest : P!ExtendRead(p, s, minutes)
  \/ \E i \in P!Item, value \in {"right", "wrong"} : P!AnswerRead(p, s, i, value)
Creates(p, s) ==
  \E booking \in Booking \cup {None}, duration \in 1..Longest, count \in 1..MaxItems,
     questions, problems \in BOOLEAN :
    P!CreateSession(p, s, booking, duration, count, questions, problems)
Waits ==
  \/ P!JobRead \/ P!JobEnd \/ \E p \in P!Process : P!Fail(p)
  \/ \E s \in P!Session : P!JobNext(s) /\ ~P!Running(s)
BeginsToGrade(p, s) ==
  /\ proc[p].pc # "grade" /\ P!Running(s)
  /\ \E rest \in SUBSET P!Session : P!CompleteRead(p, s, rest)

LEMMA PracticeSteps ==
  ASSUME PracticeInv, P!Next
  PROVE  \/ \E p \in P!Process : \/ Goes(p) \/ P!AnswerWrite(p) \/ P!ExtendWrite(p) \/ P!AbortWrite(p)
                                 \/ \E s \in P!Session : BeginsToGrade(p, s) \/ Reads(p, s) \/ Creates(p, s)
         \/ Waits \/ P!Tick
<1>1. Cron \in P!Process /\ Request \subseteq P!Process
  BY DEF P!Process
<1>2. ASSUME NEW s \in P!Session, P!JobNext(s), P!Running(s) PROVE BeginsToGrade(Cron, s)
  <2>1. proc[Cron].pc = "batch" /\ P!CompleteRead(Cron, s, proc[Cron].rest \ {s})
    BY <1>2 DEF P!JobNext
  <2>2. proc[Cron].rest \ {s} \in SUBSET P!Session
    BY <1>1, <2>1, PracticeLocals DEF PracticeInv, P!TypeOK
  <2> QED
    BY <1>2, <2>1, <2>2 DEF BeginsToGrade
<1>3. CASE P!Job
  BY <1>1, <1>2, <1>3 DEF P!Job, P!Goes, Goes, Waits
<1>4. ASSUME NEW p \in Request, P!Step(p)
      PROVE  \/ Goes(p) \/ P!AnswerWrite(p) \/ P!ExtendWrite(p) \/ P!AbortWrite(p) \/ Waits
             \/ \E s \in P!Session : BeginsToGrade(p, s) \/ Reads(p, s) \/ Creates(p, s)
  <2>1. ASSUME NEW s \in P!Session, P!Complete(p, s) PROVE BeginsToGrade(p, s)
    BY <2>1 DEF P!Complete, BeginsToGrade
  <2>2. ASSUME NEW s \in P!Session,
               P!AbortRead(p, s) \/ (\E minutes \in 1..Longest : P!ExtendRead(p, s, minutes))
               \/ \E i \in P!Item, value \in {"right", "wrong"} : P!AnswerRead(p, s, i, value)
        PROVE  Reads(p, s)
    BY <2>2 DEF Reads
  <2>3. ASSUME NEW s \in P!Session, NEW booking \in Booking \cup {None}, NEW duration \in 1..Longest,
               NEW count \in 1..MaxItems, NEW questions \in BOOLEAN, NEW problems \in BOOLEAN,
               P!CreateSession(p, s, booking, duration, count, questions, problems)
        PROVE  Creates(p, s)
    BY <2>3 DEF Creates
  <2> QED
    BY <1>1, <1>4, <2>1, <2>2, <2>3, Zenon DEF P!Step, P!Goes, Goes, Waits
<1>5. ASSUME P!Fail(Cron) PROVE Waits
  BY <1>1, <1>5 DEF Waits
<1> QED
  BY <1>1, <1>3, <1>4, <1>5, Zenon DEF P!Next

LEMMA PracticeStep == ASSUME PracticeInv, [P!Next]_P!vars PROVE PracticeInv'
<1>1. CASE P!Next
  <2>1. ASSUME NEW p \in P!Process, Goes(p) PROVE PracticeInv'
    BY <2>1, GradeSteps, CompleteWrites, Attendances, Awards DEF Goes
  <2>2. ASSUME NEW p \in P!Process, NEW s \in P!Session, BeginsToGrade(p, s) PROVE PracticeInv'
    BY <2>2, CompleteReads DEF BeginsToGrade
  <2>3. ASSUME NEW p \in P!Process, NEW s \in P!Session, Reads(p, s) PROVE PracticeInv'
    BY <2>3, RequestsRead DEF Reads
  <2>4. ASSUME NEW p \in P!Process, NEW s \in P!Session, Creates(p, s) PROVE PracticeInv'
    BY <2>4, CreateSteps DEF Creates
  <2>5. ASSUME Waits PROVE PracticeInv'
    BY <2>5, JobSteps DEF Waits
  <2> QED
    BY <1>1, <2>1, <2>2, <2>3, <2>4, <2>5, PracticeSteps, RequestsWrite, TickSteps
<1>2. CASE UNCHANGED P!vars
  BY <1>2 DEF P!vars, PracticeInv, P!TypeOK, MarksAreAnswered, Holds
<1> QED
  BY <1>1, <1>2

LEMMA PracticeTypes == P!Spec => []PracticeInv
  BY PracticeStart, PracticeStep, PTL DEF P!Spec

\* Both modules keep the types they state: in particular no session is given a
\* score beyond what its items may bring, and the counters of a problem stay within
\* the number of submissions made.
THEOREM PracticeIsTyped == P!Spec /\ J!Spec => []TypeOK
<1>1. PracticeInv /\ JudgeInv => TypeOK
  BY DEF PracticeInv, JudgeInv, TypeOK
<1> QED
  BY <1>1, PracticeTypes, JudgeTypes, PTL

-----------------------------------------------------------------------------
(* PracticeSessions: attendance is paid once per process that looked for it *)

Awarding(b) == {p \in P!Process : proc[p].pc = "award" /\ sessions[proc[p].s].booking = b}

\* Whoever is about to award points has found none, and there can be no more of
\* them than processes: what they will add is allowed for already.
PointsInv == \A b \in Booking : points[b] + 10 * Cardinality(Awarding(b)) <= 10 * Cardinality(P!Process)

LEMMA ProcessesCount ==
  /\ IsFiniteSet(P!Process)
  /\ \A b : /\ IsFiniteSet(Awarding(b)) /\ Cardinality(Awarding(b)) \in Nat
            /\ Cardinality(Awarding(b)) <= Cardinality(P!Process)
<1>1. IsFiniteSet(P!Process)
  BY PracticeAssumption, SameCount, FS_AddElement DEF P!ConstantsAssumption, P!Process
<1>2. \A b : Awarding(b) \in SUBSET P!Process
  BY DEF Awarding
<1> QED
  BY <1>1, <1>2, Counting

\* The awards that a step leaves to be made.
LEMMA AwardsStay ==
  ASSUME PracticeInv, PointsInv, Kept, points' = points,
         \A q \in P!Process : proc'[q].pc = "award" => proc'[q] = proc[q]
  PROVE  PointsInv'
<1>1. \A q \in P!Process : proc[q].pc = "award" =>
        sessions'[proc[q].s].booking = sessions[proc[q].s].booking
  BY PracticeLocals DEF PracticeInv, P!TypeOK, Holds, Kept
<1>2. ASSUME NEW b \in Booking PROVE Awarding(b)' \subseteq Awarding(b)
  BY <1>1 DEF Awarding
<1> SUFFICES ASSUME NEW b \in Booking
    PROVE  points[b] + 10 * Cardinality(Awarding(b)') <= 10 * Cardinality(P!Process)
  BY DEF PointsInv
<1>3. Cardinality(Awarding(b)') <= Cardinality(Awarding(b)) /\ Cardinality(Awarding(b)') \in Nat
  BY <1>2, ProcessesCount, Counting
<1>4. points[b] + 10 * Cardinality(Awarding(b)) <= 10 * Cardinality(P!Process) /\ points[b] \in Nat
  BY DEF PointsInv, PracticeInv, P!TypeOK
<1>5. Cardinality(Awarding(b)) \in Nat /\ Cardinality(P!Process) \in Nat
  BY ProcessesCount, FS_CardinalityType
<1> QED
  BY <1>3, <1>4, <1>5

LEMMA AttendanceLooks ==
  ASSUME PracticeInv, PointsInv, NEW p \in P!Process, P!Attendance(p)
  PROVE  PointsInv'
<1> DEFINE me == proc[p]
<1>1. me.pc = "attendance" /\ UNCHANGED <<sessions, points>> /\ Kept
  BY DEF P!Attendance, Kept
<1>2. me \in [pc : {"attendance", "award"}, s : P!Session, total : Nat, rest : SUBSET P!Session]
  BY <1>1, PracticeLocals DEF PracticeInv, P!TypeOK
<1>3. CASE P!Attended(sessions[me.s].booking)
  <2>1. P!Finish(p, me.rest)
    BY <1>3 DEF P!Attendance
  <2>2. proc'[p].pc # "award" /\ \A q \in P!Process : q # p => proc'[q] = proc[q]
    BY <1>2, <2>1, PracticeFinishes DEF PracticeInv, P!TypeOK, P!Finish, P!Goto
  <2> QED
    BY <1>1, <2>2, AwardsStay
<1>4. CASE ~P!Attended(sessions[me.s].booking)
  <2>1. PICK c \in Booking : sessions[me.s].booking = c /\ points[c] = 0
    BY <1>4 DEF P!Attended, PracticeInv, P!TypeOK
  <2>2. /\ proc'[p] = [me EXCEPT !.pc = "award"]
        /\ \A q \in P!Process : q # p => proc'[q] = proc[q]
    BY <1>4 DEF P!Attendance, P!Goto, PracticeInv, P!TypeOK
  <2>3. proc'[p].s = me.s
    BY <1>2, <2>2
  <2> SUFFICES ASSUME NEW b \in Booking
      PROVE  points[b] + 10 * Cardinality(Awarding(b)') <= 10 * Cardinality(P!Process)
    BY <1>1 DEF PointsInv
  <2>4. Awarding(b)' \subseteq P!Process
    BY DEF Awarding
  <2>5. Cardinality(Awarding(b)') <= Cardinality(P!Process) /\ Cardinality(Awarding(b)') \in Nat
        /\ Cardinality(P!Process) \in Nat
    BY <2>4, ProcessesCount, Counting, FS_CardinalityType
  <2>6. CASE b = c
    BY <2>1, <2>5, <2>6
  <2>7. CASE b # c
    <3>1. Awarding(b)' \subseteq Awarding(b)
      BY <1>1, <2>1, <2>2, <2>3, <2>7 DEF Awarding
    <3>2. Cardinality(Awarding(b)') <= Cardinality(Awarding(b)) /\ Cardinality(Awarding(b)) \in Nat
      BY <3>1, ProcessesCount, Counting
    <3>3. points[b] + 10 * Cardinality(Awarding(b)) <= 10 * Cardinality(P!Process) /\ points[b] \in Nat
      BY DEF PointsInv, PracticeInv, P!TypeOK
    <3> QED
      BY <2>5, <3>2, <3>3
  <2> QED
    BY <2>6, <2>7
<1> QED
  BY <1>3, <1>4

LEMMA AwardPays ==
  ASSUME PracticeInv, PointsInv, NEW p \in P!Process, P!Award(p)
  PROVE  PointsInv'
<1> DEFINE me == proc[p]
<1>1. me.pc = "award" /\ proc'[p].pc \in {"idle", "batch"} /\ sessions' = sessions
  BY Awards
<1>2. PICK c \in Booking, n \in 0..10 :
        sessions[me.s].booking = c /\ points' = [points EXCEPT ![c] = @ + n]
  BY <1>1, Awards DEF PracticeInv, Holds
<1>3. \A q \in P!Process : q # p => proc'[q] = proc[q]
  BY DEF P!Award, P!Finish, P!Goto, PracticeInv, P!TypeOK
<1> SUFFICES ASSUME NEW b \in Booking
    PROVE  points'[b] + 10 * Cardinality(Awarding(b)') <= 10 * Cardinality(P!Process)
  BY DEF PointsInv
<1>4. points[b] + 10 * Cardinality(Awarding(b)) <= 10 * Cardinality(P!Process) /\ points[b] \in Nat
      /\ Cardinality(P!Process) \in Nat /\ Cardinality(Awarding(b)) \in Nat
  BY ProcessesCount, FS_CardinalityType DEF PointsInv, PracticeInv, P!TypeOK
<1>5. CASE b = c
  <2>1. Awarding(b)' = Awarding(b) \ {p} /\ p \in Awarding(b)
    BY <1>1, <1>2, <1>3, <1>5 DEF Awarding
  <2>2. Cardinality(Awarding(b)') = Cardinality(Awarding(b)) - 1
    BY <2>1, ProcessesCount, Counting
  <2>3. points'[b] = points[b] + n
    BY <1>2, <1>5 DEF PracticeInv, P!TypeOK
  <2> QED
    BY <1>2, <1>4, <2>2, <2>3
<1>6. CASE b # c
  <2>1. Awarding(b)' = Awarding(b)
    BY <1>1, <1>2, <1>3, <1>6 DEF Awarding
  <2>2. points'[b] = points[b]
    BY <1>2, <1>6 DEF PracticeInv, P!TypeOK
  <2> QED
    BY <1>4, <2>1, <2>2
<1> QED
  BY <1>5, <1>6

LEMMA PointsStep == ASSUME PracticeInv, PointsInv, [P!Next]_P!vars PROVE PointsInv'
<1>1. CASE P!Next
  <2>1. ASSUME NEW p \in P!Process, Goes(p) PROVE PointsInv'
    <3>1. ASSUME NEW i \in P!Item, P!Grade(p, i) PROVE PointsInv'
      <4>1. Kept /\ points' = points
        BY <3>1, GradeSteps DEF P!Grade
      <4>2. proc'[p].pc # "award" /\ \A q \in P!Process : q # p => proc'[q] = proc[q]
        <5>1. proc[p] \in [pc : {"grade"}, s : P!Session, todo : SUBSET P!Item,
                           seen : [P!Item -> {"right", "wrong", None}], total : Nat,
                           rest : SUBSET P!Session]
          BY <3>1, PracticeLocals DEF P!Grade, PracticeInv, P!TypeOK
        <5> QED
          BY <3>1, <5>1 DEF P!Grade, P!Goto, PracticeInv, P!TypeOK
      <4> QED
        BY <4>1, <4>2, AwardsStay
    <3>2. ASSUME P!CompleteWrite(p) PROVE PointsInv'
      <4>1. Kept /\ points' = points
        BY <3>2, CompleteWrites DEF P!CompleteWrite
      <4>2. proc'[p].pc # "award" /\ \A q \in P!Process : q # p => proc'[q] = proc[q]
        BY <3>2 DEF P!CompleteWrite, P!Goto, PracticeInv, P!TypeOK
      <4> QED
        BY <4>1, <4>2, AwardsStay
    <3> QED
      BY <2>1, <3>1, <3>2, AttendanceLooks, AwardPays DEF Goes
  <2>2. ASSUME NEW p \in P!Process, NEW s \in P!Session, BeginsToGrade(p, s) PROVE PointsInv'
    <3>1. Kept /\ points' = points
      BY <2>2 DEF BeginsToGrade, P!CompleteRead, Kept
    <3>2. proc'[p].pc # "award" /\ \A q \in P!Process : q # p => proc'[q] = proc[q]
      BY <2>2 DEF BeginsToGrade, P!CompleteRead, P!Goto, PracticeInv, P!TypeOK
    <3> QED
      BY <3>1, <3>2, AwardsStay
  <2>3. ASSUME NEW p \in P!Process, NEW s \in P!Session, Reads(p, s) PROVE PointsInv'
    <3>1. UNCHANGED <<sessions, points>> /\ proc'[p].pc \in {"answer", "extend", "abort"}
      BY <2>3, RequestsRead DEF Reads
    <3>2. \A q \in P!Process : q # p => proc'[q] = proc[q]
      BY <2>3 DEF Reads, P!AbortRead, P!ExtendRead, P!AnswerRead, P!Goto, PracticeInv, P!TypeOK
    <3>3. Kept
      BY <3>1 DEF Kept
    <3> QED
      BY <3>1, <3>2, <3>3, AwardsStay
  <2>4. ASSUME NEW p \in P!Process, NEW s \in P!Session, Creates(p, s) PROVE PointsInv'
    BY <2>4, CreateSteps, AwardsStay DEF Creates
  <2>5. ASSUME NEW p \in P!Process, P!AnswerWrite(p) \/ P!ExtendWrite(p) \/ P!AbortWrite(p) PROVE PointsInv'
    BY <2>5, RequestsWrite, AwardsStay
  <2>6. ASSUME Waits PROVE PointsInv'
    <3>1. /\ UNCHANGED <<sessions, points>>
          /\ \E p \in P!Process : /\ proc'[p].pc \in {"idle", "batch"}
                                  /\ \A q \in P!Process : q # p => proc'[q] = proc[q]
      BY <2>6, JobSteps DEF Waits
    <3>2. Kept
      BY <3>1 DEF Kept
    <3> QED
      BY <3>1, <3>2, AwardsStay
  <2>7. ASSUME P!Tick PROVE PointsInv'
    BY <2>7, TickSteps, AwardsStay
  <2> QED
    BY <1>1, <2>1, <2>2, <2>3, <2>4, <2>5, <2>6, <2>7, PracticeSteps
<1>2. CASE UNCHANGED P!vars
  BY <1>2 DEF P!vars, PointsInv, Awarding
<1> QED
  BY <1>1, <1>2

\* The points of a booking stay within ten for each process that may complete its
\* sessions, however the steps of completeSession - looking for earlier points and
\* adding some - of several completions fall between each other.
THEOREM PointsAreBounded == P!Spec => []AttendancePaysOnce
<1>1. P!Init => PointsInv
  <2> SUFFICES ASSUME P!Init PROVE PointsInv
    OBVIOUS
  <2>1. \A b : Awarding(b) = {}
    BY PracticeIdle DEF P!Init, Awarding
  <2>2. Cardinality(P!Process) \in Nat
    BY ProcessesCount, FS_CardinalityType
  <2> QED
    BY <2>1, <2>2, FS_EmptySet DEF P!Init, PointsInv
<1>2. PracticeInv /\ PointsInv => AttendancePaysOnce
  <2> SUFFICES ASSUME PracticeInv, PointsInv, NEW b \in Booking
      PROVE  points[b] <= 10 * Cardinality(P!Process)
    BY SameCount DEF AttendancePaysOnce, P!AttendancePaysOnce
  <2>1. Cardinality(Awarding(b)) \in Nat /\ Cardinality(P!Process) \in Nat /\ points[b] \in Nat
    BY ProcessesCount, FS_CardinalityType DEF PracticeInv, P!TypeOK
  <2> QED
    BY <2>1 DEF PointsInv
<1> QED
  BY <1>1, <1>2, PracticeTypes, PointsStep, PTL DEF P!Spec

-----------------------------------------------------------------------------
(* PracticeSessions: the score is the sum of the marks                      *)

\* As long as only one grades a session, its total is what it has marked so far:
\* whatever was marked before, and is not to be marked again, is counted in.
ScoreInv ==
  \A s \in P!Session \ together :
    /\ \A p \in P!Process : P!Grading(p, s) =>
         proc[p].total = P!MarkSum(sessions[s].items \ proc[p].todo, sessions[s].mark)
    /\ \A p, q \in P!Process : P!Grading(p, s) /\ P!Grading(q, s) => p = q
    /\ sessions[s].status = "COMPLETED" =>
         /\ sessions[s].score = P!MarkSum(sessions[s].items, sessions[s].mark)
         /\ \A p \in P!Process : ~P!Grading(p, s)

\* A step that marks nothing and begins no grading.
LEMMA ScoresStay ==
  ASSUME PracticeInv, ScoreInv, Kept, together' = together,
         \A q \in P!Process : proc'[q].pc = "grade" => proc'[q] = proc[q],
         \A s \in P!Session :
           \/ sessions[s].status = "none" /\ sessions'[s].status = "IN_PROGRESS"
           \/ /\ sessions'[s].mark = sessions[s].mark /\ sessions'[s].score = sessions[s].score
              /\ sessions'[s].status \in {sessions[s].status, "ABANDONED"}
  PROVE  ScoreInv'
<1> SUFFICES ASSUME NEW s \in P!Session \ together
    PROVE  /\ \A p \in P!Process : P!Grading(p, s)' =>
                proc'[p].total = P!MarkSum(sessions'[s].items \ proc'[p].todo, sessions'[s].mark)
           /\ \A p, q \in P!Process : P!Grading(p, s)' /\ P!Grading(q, s)' => p = q
           /\ sessions'[s].status = "COMPLETED" =>
                /\ sessions'[s].score = P!MarkSum(sessions'[s].items, sessions'[s].mark)
                /\ \A p \in P!Process : ~P!Grading(p, s)'
  BY DEF ScoreInv
<1>1. \A p \in P!Process : P!Grading(p, s)' => P!Grading(p, s) /\ proc'[p] = proc[p]
  BY DEF P!Grading
<1>2. \A p \in P!Process : P!Grading(p, s) => sessions[s].status # "none"
  BY DEF P!Grading, PracticeInv, Holds
<1>3. /\ \A p \in P!Process : P!Grading(p, s) =>
           proc[p].total = P!MarkSum(sessions[s].items \ proc[p].todo, sessions[s].mark)
      /\ \A p, q \in P!Process : P!Grading(p, s) /\ P!Grading(q, s) => p = q
      /\ sessions[s].status = "COMPLETED" =>
           /\ sessions[s].score = P!MarkSum(sessions[s].items, sessions[s].mark)
           /\ \A p \in P!Process : ~P!Grading(p, s)
  BY DEF ScoreInv
<1>4. CASE sessions[s].status = "none"
  BY <1>1, <1>2, <1>4
<1>5. CASE sessions[s].status # "none"
  <2>1. /\ sessions'[s].mark = sessions[s].mark /\ sessions'[s].score = sessions[s].score
        /\ sessions'[s].status \in {sessions[s].status, "ABANDONED"}
        /\ sessions'[s].items = sessions[s].items
    BY <1>5 DEF Kept
  <2> QED
    BY <1>1, <1>3, <2>1
<1> QED
  BY <1>4, <1>5

\* What was marked before is not to be marked again: it was answered.
LEMMA GradingBegins ==
  ASSUME PracticeInv, ScoreInv, NEW p \in P!Process, NEW s \in P!Session, BeginsToGrade(p, s)
  PROVE  ScoreInv'
<1> DEFINE row == sessions[s]
           answered == {i \in row.items : row.answer[i] # None}
<1>1. PICK rest \in SUBSET P!Session : P!CompleteRead(p, s, rest)
  BY DEF BeginsToGrade
<1>2. /\ UNCHANGED sessions
      /\ P!Goto(p, [pc |-> "grade", s |-> s, todo |-> answered, seen |-> row.answer,
                    total |-> 0, rest |-> rest])
      /\ together' = IF \E q \in P!Process \ {p} : P!Grading(q, s) THEN together \cup {s} ELSE together
  BY <1>1 DEF P!CompleteRead
<1>3. /\ proc'[p].pc = "grade" /\ proc'[p].s = s /\ proc'[p].todo = answered /\ proc'[p].total = 0
      /\ \A q \in P!Process : q # p => proc'[q] = proc[q]
  BY <1>2 DEF P!Goto, PracticeInv, P!TypeOK
<1>4. row.items \subseteq P!Item /\ row.status = "IN_PROGRESS" /\ proc[p].pc # "grade"
  BY DEF BeginsToGrade, P!Running, PracticeInv, P!TypeOK, P!Row
<1>5. P!MarkSum(row.items \ answered, row.mark) = 0
  <2>1. \A i \in row.items \ answered : row.mark[i] = None
    BY <1>4 DEF PracticeInv, MarksAreAnswered
  <2> QED
    BY <1>4, <2>1, MarkSums
<1> SUFFICES ASSUME NEW t \in P!Session \ together'
    PROVE  /\ \A q \in P!Process : P!Grading(q, t)' =>
                proc'[q].total = P!MarkSum(sessions[t].items \ proc'[q].todo, sessions[t].mark)
           /\ \A q, r \in P!Process : P!Grading(q, t)' /\ P!Grading(r, t)' => q = r
           /\ sessions[t].status = "COMPLETED" =>
                /\ sessions[t].score = P!MarkSum(sessions[t].items, sessions[t].mark)
                /\ \A q \in P!Process : ~P!Grading(q, t)'
  BY <1>2 DEF ScoreInv
<1>6. t \in P!Session \ together
  BY <1>2
<1>7. /\ \A q \in P!Process : P!Grading(q, t) =>
           proc[q].total = P!MarkSum(sessions[t].items \ proc[q].todo, sessions[t].mark)
      /\ \A q, r \in P!Process : P!Grading(q, t) /\ P!Grading(r, t) => q = r
      /\ sessions[t].status = "COMPLETED" =>
           /\ sessions[t].score = P!MarkSum(sessions[t].items, sessions[t].mark)
           /\ \A q \in P!Process : ~P!Grading(q, t)
  BY <1>6 DEF ScoreInv
<1>8. \A q \in P!Process : P!Grading(q, t)' => (q = p /\ t = s) \/ (q # p /\ P!Grading(q, t))
  BY <1>3 DEF P!Grading
<1>9. CASE t = s
  <2>1. \A q \in P!Process \ {p} : ~P!Grading(q, s)
    BY <1>2, <1>9
  <2> QED
    BY <1>3, <1>4, <1>5, <1>8, <1>9, <2>1
<1>10. CASE t # s
  BY <1>3, <1>7, <1>8, <1>10
<1> QED
  BY <1>9, <1>10

LEMMA MarkAdds ==
  ASSUME NEW items \in SUBSET P!Item, NEW mark, NEW i \in P!Item \ items, mark[i] \in 0..5
  PROVE  P!MarkSum(items \cup {i}, mark) = P!MarkSum(items, mark) + mark[i]
  BY MarkSums

\* A mark that is written is counted, and no other item is touched.
LEMMA MarkCounts ==
  ASSUME PracticeInv, ScoreInv, NEW p \in P!Process, NEW i \in P!Item, P!Grade(p, i)
  PROVE  ScoreInv'
<1> DEFINE me == proc[p]
           row == sessions[me.s]
<1>1. PICK mark \in (IF me.seen[i] = "right" THEN {0, P!Worth(i)} ELSE {0}) :
        /\ sessions' = [sessions EXCEPT ![me.s].mark[i] = mark]
        /\ P!Goto(p, [me EXCEPT !.todo = me.todo \ {i}, !.total = me.total + mark])
  BY DEF P!Grade, P!AddMark
<1>2. me.pc = "grade" /\ i \in me.todo /\ UNCHANGED together
  BY DEF P!Grade
<1>3. mark \in 0..5
  BY <1>1 DEF P!Worth
<1>4. me \in [pc : {"grade"}, s : P!Session, todo : SUBSET P!Item,
              seen : [P!Item -> {"right", "wrong", None}], total : Nat, rest : SUBSET P!Session]
  BY <1>2, PracticeLocals DEF PracticeInv, P!TypeOK
<1>5. row \in P!Row /\ row.items \subseteq P!Item /\ me.todo \subseteq row.items
  BY <1>2, <1>4 DEF PracticeInv, P!TypeOK, P!Row, Holds
<1>6. /\ proc'[p].pc = "grade" /\ proc'[p].s = me.s /\ proc'[p].todo = me.todo \ {i}
      /\ proc'[p].total = me.total + mark
      /\ \A q \in P!Process : q # p => proc'[q] = proc[q]
  BY <1>1, <1>4 DEF P!Goto, PracticeInv, P!TypeOK
<1>7. /\ sessions'[me.s].status = row.status /\ sessions'[me.s].items = row.items
      /\ sessions'[me.s].mark = [row.mark EXCEPT ![i] = mark]
      /\ \A s \in P!Session : s # me.s => sessions'[s] = sessions[s]
  BY <1>1, <1>4, <1>5 DEF PracticeInv, P!TypeOK, P!Row
<1> SUFFICES ASSUME NEW t \in P!Session \ together
    PROVE  /\ \A q \in P!Process : P!Grading(q, t)' =>
                proc'[q].total = P!MarkSum(sessions'[t].items \ proc'[q].todo, sessions'[t].mark)
           /\ \A q, r \in P!Process : P!Grading(q, t)' /\ P!Grading(r, t)' => q = r
           /\ sessions'[t].status = "COMPLETED" =>
                /\ sessions'[t].score = P!MarkSum(sessions'[t].items, sessions'[t].mark)
                /\ \A q \in P!Process : ~P!Grading(q, t)'
  BY <1>2 DEF ScoreInv
<1>8. /\ \A q \in P!Process : P!Grading(q, t) =>
           proc[q].total = P!MarkSum(sessions[t].items \ proc[q].todo, sessions[t].mark)
      /\ \A q, r \in P!Process : P!Grading(q, t) /\ P!Grading(r, t) => q = r
      /\ sessions[t].status = "COMPLETED" =>
           /\ sessions[t].score = P!MarkSum(sessions[t].items, sessions[t].mark)
           /\ \A q \in P!Process : ~P!Grading(q, t)
  BY DEF ScoreInv
<1>9. \A q \in P!Process : P!Grading(q, t)' <=> P!Grading(q, t)
  BY <1>2, <1>6 DEF P!Grading
<1>10. CASE t # me.s
  <2>1. sessions'[t] = sessions[t] /\ ~P!Grading(p, t)
    BY <1>7, <1>10 DEF P!Grading
  <2> QED
    BY <1>6, <1>8, <1>9, <2>1
<1>11. CASE t = me.s
  <2>1. P!Grading(p, t) /\ me.total = P!MarkSum(row.items \ me.todo, row.mark)
        /\ row.status # "COMPLETED" /\ \A q \in P!Process : P!Grading(q, t) => q = p
    BY <1>2, <1>8, <1>11 DEF P!Grading
  <2> DEFINE more == [row.mark EXCEPT ![i] = mark]
             done == row.items \ me.todo
  <2>2. more[i] = mark /\ \A j \in done : more[j] = row.mark[j]
    BY <1>2, <1>5 DEF P!Row
  <2>4. row.items \ (me.todo \ {i}) = done \cup {i} /\ i \notin done /\ done \in SUBSET P!Item
    BY <1>2, <1>5
  <2>8. P!MarkSum(row.items \ me.todo, row.mark) = P!MarkSum(done, row.mark)
    OBVIOUS
  <2> HIDE DEF more, done
  <2>3. P!MarkSum(done, more) = P!MarkSum(done, row.mark)
    BY <2>2, <2>4, MarkSums
  <2>5. P!MarkSum(done \cup {i}, more) = P!MarkSum(done, more) + mark
    <3>1. i \in P!Item \ done /\ more[i] \in 0..5
      BY <1>3, <2>2, <2>4
    <3>2. P!MarkSum(done \cup {i}, more) = P!MarkSum(done, more) + more[i]
      BY <2>4, <3>1, MarkAdds, Zenon
    <3> QED
      BY <2>2, <3>2
  <2>6. me.total + mark = P!MarkSum(row.items \ (me.todo \ {i}), more)
    BY <2>1, <2>3, <2>4, <2>5, <2>8
  <2>7. sessions'[t].mark = more
    BY <1>7, <1>11 DEF more
  <2> QED
    BY <1>6, <1>7, <1>8, <1>9, <1>11, <2>1, <2>6, <2>7
<1> QED
  BY <1>10, <1>11

LEMMA ScoreIsWritten ==
  ASSUME PracticeInv, ScoreInv, NEW p \in P!Process, P!CompleteWrite(p)
  PROVE  ScoreInv'
<1> DEFINE me == proc[p]
           row == sessions[me.s]
<1>1. /\ me.pc = "grade" /\ me.todo = {} /\ UNCHANGED together
      /\ P!Goto(p, [pc |-> "attendance", s |-> me.s, total |-> me.total, rest |-> me.rest])
      /\ sessions' = [sessions EXCEPT ![me.s].status = "COMPLETED", ![me.s].score = me.total]
  BY DEF P!CompleteWrite
<1>2. me.s \in P!Session
  BY <1>1, PracticeLocals DEF PracticeInv, P!TypeOK
<1>3. row \in P!Row
  BY <1>2 DEF PracticeInv, P!TypeOK
<1>4. proc'[p].pc = "attendance" /\ \A q \in P!Process : q # p => proc'[q] = proc[q]
  BY <1>1 DEF P!Goto, PracticeInv, P!TypeOK
<1>5. /\ sessions'[me.s].items = row.items /\ sessions'[me.s].mark = row.mark
      /\ sessions'[me.s].score = me.total
      /\ \A s \in P!Session : s # me.s => sessions'[s] = sessions[s]
  BY <1>1, <1>2, <1>3 DEF PracticeInv, P!TypeOK, P!Row
<1> SUFFICES ASSUME NEW t \in P!Session \ together
    PROVE  /\ \A q \in P!Process : P!Grading(q, t)' =>
                proc'[q].total = P!MarkSum(sessions'[t].items \ proc'[q].todo, sessions'[t].mark)
           /\ \A q, r \in P!Process : P!Grading(q, t)' /\ P!Grading(r, t)' => q = r
           /\ sessions'[t].status = "COMPLETED" =>
                /\ sessions'[t].score = P!MarkSum(sessions'[t].items, sessions'[t].mark)
                /\ \A q \in P!Process : ~P!Grading(q, t)'
  BY <1>1 DEF ScoreInv
<1>6. /\ \A q \in P!Process : P!Grading(q, t) =>
           proc[q].total = P!MarkSum(sessions[t].items \ proc[q].todo, sessions[t].mark)
      /\ \A q, r \in P!Process : P!Grading(q, t) /\ P!Grading(r, t) => q = r
      /\ sessions[t].status = "COMPLETED" =>
           /\ sessions[t].score = P!MarkSum(sessions[t].items, sessions[t].mark)
           /\ \A q \in P!Process : ~P!Grading(q, t)
  BY DEF ScoreInv
<1>7. \A q \in P!Process : P!Grading(q, t)' => q # p /\ P!Grading(q, t)
  BY <1>4 DEF P!Grading
<1>8. CASE t # me.s
  BY <1>4, <1>5, <1>6, <1>7, <1>8
<1>9. CASE t = me.s
  <2>1. P!Grading(p, t) /\ me.total = P!MarkSum(row.items \ {}, row.mark)
    BY <1>1, <1>6, <1>9 DEF P!Grading
  <2>2. row.items \ {} = row.items
    OBVIOUS
  <2>3. me.total = P!MarkSum(row.items, row.mark)
    BY <2>1, <2>2
  <2>4. \A q \in P!Process : ~P!Grading(q, t)'
    BY <1>6, <1>7, <2>1
  <2> QED
    BY <1>5, <1>9, <2>3, <2>4
<1> QED
  BY <1>8, <1>9

LEMMA ScoreStep == ASSUME PracticeInv, ScoreInv, [P!Next]_P!vars PROVE ScoreInv'
<1>1. CASE P!Next
  <2>0. ASSUME UNCHANGED <<sessions, together>>,
               \A q \in P!Process : proc'[q].pc = "grade" => proc'[q] = proc[q]
        PROVE  ScoreInv'
    BY <2>0, ScoresStay DEF Kept
  <2>1. ASSUME NEW p \in P!Process, Goes(p) PROVE ScoreInv'
    <3>1. ASSUME P!Attendance(p) \/ P!Award(p) PROVE ScoreInv'
      <4>1. UNCHANGED <<sessions, together>> /\ proc[p].pc \in {"attendance", "award"}
        BY <3>1 DEF P!Attendance, P!Award
      <4>2. proc[p] \in [pc : {"attendance", "award"}, s : P!Session, total : Nat, rest : SUBSET P!Session]
        BY <4>1, PracticeLocals DEF PracticeInv, P!TypeOK
      <4>3. proc'[p].pc # "grade" /\ \A q \in P!Process : q # p => proc'[q] = proc[q]
        <5>1. \/ P!Goto(p, [proc[p] EXCEPT !.pc = "award"])
              \/ P!Goto(p, [pc |-> "batch", rest |-> proc[p].rest])
              \/ P!Goto(p, P!Idle)
          BY <3>1 DEF P!Attendance, P!Award, P!Finish
        <5> QED
          BY <4>2, <5>1, PracticeIdle DEF P!Goto, PracticeInv, P!TypeOK
      <4> QED
        BY <2>0, <4>1, <4>3
    <3> QED
      BY <2>1, <3>1, MarkCounts, ScoreIsWritten DEF Goes
  <2>2. ASSUME NEW p \in P!Process, NEW s \in P!Session, Reads(p, s) PROVE ScoreInv'
    <3>1. UNCHANGED <<sessions, together>> /\ proc'[p].pc \in {"answer", "extend", "abort"}
      BY <2>2, RequestsRead DEF Reads
    <3>2. \A q \in P!Process : q # p => proc'[q] = proc[q]
      BY <2>2 DEF Reads, P!AbortRead, P!ExtendRead, P!AnswerRead, P!Goto, PracticeInv, P!TypeOK
    <3> QED
      BY <2>0, <3>1, <3>2
  <2>3. ASSUME NEW p \in P!Process, NEW s \in P!Session, Creates(p, s) PROVE ScoreInv'
    <3>1. /\ Kept /\ UNCHANGED <<proc, together>>
          /\ sessions[s].status = "none" /\ sessions'[s].status = "IN_PROGRESS"
          /\ \A t \in P!Session : t # s => sessions'[t] = sessions[t]
      BY <2>3, CreateSteps DEF Creates
    <3> QED
      BY <3>1, ScoresStay
  <2>4. ASSUME NEW p \in P!Process, P!AnswerWrite(p) \/ P!ExtendWrite(p) \/ P!AbortWrite(p) PROVE ScoreInv'
    BY <2>4, RequestsWrite, ScoresStay
  <2>5. ASSUME Waits PROVE ScoreInv'
    BY <2>0, <2>5, JobSteps DEF Waits
  <2>6. ASSUME P!Tick PROVE ScoreInv'
    BY <2>6, TickSteps, ScoresStay
  <2> QED
    BY <1>1, <2>1, <2>2, <2>3, <2>4, <2>5, <2>6, PracticeSteps, GradingBegins
<1>2. CASE UNCHANGED P!vars
  BY <1>2 DEF P!vars, ScoreInv, P!Grading
<1> QED
  BY <1>1, <1>2

\* The score of a completed session is what its marks add up to, for any number of
\* items, requests and failures: completeSession counts in its own variable what it
\* writes item by item, and no one else may have marked an item it does not grade,
\* unless two completions have graded the session at the same time.
THEOREM ScoresAddUp == P!Spec => []ScoreIsSum
<1>1. P!Init => ScoreInv
  BY PracticeIdle DEF P!Init, ScoreInv, P!Grading, P!NoSession
<1>2. ScoreInv => ScoreIsSum
  BY DEF ScoreInv, ScoreIsSum, P!ScoreIsSum
<1> QED
  BY <1>1, <1>2, PracticeTypes, ScoreStep, PTL DEF P!Spec

-----------------------------------------------------------------------------
(* The two together *)

\* A behaviour of the run's specification is one of both modules, as far as their
\* steps go: what a part keeps within leaves out steps and adds none.
THEOREM PracticeComposes ==
  Spec => P!Init /\ [][P!Next]_(P!vars) /\ J!Init /\ [][J!Next]_(J!vars)
<1>1. Init => P!Init /\ J!Init
  BY DEF Init
<1>2. ASSUME [Next]_vars PROVE [P!Next]_(P!vars) /\ [J!Next]_(J!vars)
  <2>1. Requests \subseteq Request
    BY LoneAssumption DEF Requests
  <2>2. PracticeNext => P!Next
    BY <2>1 DEF PracticeNext, P!Next
  <2>3. JudgeNext => J!Next
    BY <2>1 DEF JudgeNext, J!Next
  <2>4. UNCHANGED ofPractice => UNCHANGED P!vars
    BY DEF ofPractice, P!vars
  <2>5. UNCHANGED ofSubmissions => UNCHANGED J!vars
    BY DEF ofSubmissions, J!vars, J!problem
  <2>6. CASE Next
    BY <2>2, <2>3, <2>4, <2>5, <2>6, Zenon DEF Next
  <2>7. CASE UNCHANGED vars
    BY <2>4, <2>5, <2>7 DEF vars
  <2> QED
    BY <1>2, <2>6, <2>7
<1> QED
  BY <1>1, <1>2, PTL DEF Spec
=============================================================================
