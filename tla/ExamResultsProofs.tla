-------------------------- MODULE ExamResultsProofs --------------------------
(***************************************************************************)
(* Proofs about ExamResults for every exam, every number of handlers and   *)
(* every value of the thresholds.                                          *)
(***************************************************************************)
EXTENDS ExamResults, FiniteSetTheorems, TLAPS

-----------------------------------------------------------------------------
(* Types *)

\* What the label of a process says of the fields it has.
LEMMA LocalFields ==
  ASSUME NEW l \in Local
  PROVE  /\ l.pc = "save" => l.item \in Item
         /\ l.pc = "grade" => l.items \in (SUBSET Item) \ {{}} /\ l.review \in BOOLEAN
         /\ l.pc = "commit" => /\ l.new \in [Item -> Mark] /\ l.review \in BOOLEAN
                               /\ l.total \in Nat /\ l.complete \in BOOLEAN
         /\ l.pc = "sync" => l.score \in Nat
         /\ l.pc = "award" => l.delta \in Int
         /\ l.pc \in {"log", "sum"} => l.level \in 1..3 /\ l.open \in BOOLEAN
<1>1. CASE l = Idle
  BY <1>1 DEF Idle
<1>2. CASE l \in Reading
  BY <1>2 DEF Reading
<1>3. CASE l \in Saving
  BY <1>3 DEF Saving
<1>4. CASE l \in Grading
  BY <1>4 DEF Grading
<1>5. CASE l \in Rewarding
  BY <1>5 DEF Rewarding
<1>6. CASE l \in Reporting
  BY <1>6 DEF Reporting
<1> QED
  BY <1>1, <1>2, <1>3, <1>4, <1>5, <1>6 DEF Local

\* The local states the actions build.
LEMMA LocalTypes ==
  /\ Idle \in Local /\ Idle.pc = "idle"
  /\ \A pc \in {"grading", "picked", "publish", "abort", "force", "expire", "extend",
                "warn", "cancel", "penalty"} : [pc |-> pc] \in Local
  /\ \A i \in Item : [pc |-> "save", item |-> i] \in Local
  /\ \A items \in (SUBSET Item) \ {{}} : \A review \in BOOLEAN :
       [pc |-> "grade", items |-> items, review |-> review] \in Local
  /\ \A n \in Nat : [pc |-> "sync", score |-> n] \in Local
  /\ \A n \in Int : [pc |-> "award", delta |-> n] \in Local
<1>1. Idle \in Local /\ Idle.pc = "idle"
  BY DEF Local, Idle
<1>2. \A pc \in {"grading", "picked", "publish", "abort", "force", "expire", "extend",
                 "warn", "cancel", "penalty"} : [pc |-> pc] \in Local
  BY DEF Local, Reading
<1>3. \A i \in Item : [pc |-> "save", item |-> i] \in Local
  BY DEF Local, Saving
<1>4. \A items \in (SUBSET Item) \ {{}} : \A review \in BOOLEAN :
        [pc |-> "grade", items |-> items, review |-> review] \in Local
  BY DEF Local, Grading
<1>5. \A n \in Nat : [pc |-> "sync", score |-> n] \in Local
  BY DEF Local, Rewarding
<1>6. \A n \in Int : [pc |-> "award", delta |-> n] \in Local
  BY DEF Local, Rewarding
<1> QED
  BY <1>1, <1>2, <1>3, <1>4, <1>5, <1>6

LEMMA CommitType ==
  ASSUME NEW new \in [Item -> Mark], NEW review \in BOOLEAN, NEW total \in Nat,
         NEW complete \in BOOLEAN
  PROVE  [pc |-> "commit", new |-> new, review |-> review, total |-> total,
          complete |-> complete] \in Local
  BY DEF Local, Grading

LEMMA ReportType ==
  ASSUME NEW level \in 1..3, NEW open \in BOOLEAN, NEW pc \in {"log", "sum"}
  PROVE  [pc |-> pc, level |-> level, open |-> open] \in Local
  BY DEF Local, Reporting

LEMMA TotalType == \A m : Total(m) \in Nat
<1> SUFFICES ASSUME NEW m PROVE Total(m) \in Nat
  OBVIOUS
<1>1. IsFiniteSet(1..Worth)
  BY ItemsAssumption, FS_Interval
<1>2. IsFiniteSet(Item \X (1..Worth))
  BY <1>1, ItemsAssumption, FS_Product
<1>3. IsFiniteSet({u \in Item \X (1..Worth) : m[u[1]] # None /\ u[2] <= m[u[1]]})
  BY <1>2, FS_Subset
<1> QED
  BY <1>3, FS_CardinalityType DEF Total

LEMMA PassedType ==
  ASSUME NEW total \in Nat, NEW complete \in BOOLEAN
  PROVE  PassedState(total, complete) \in BOOLEAN \cup {None} /\ NotPassed \in BOOLEAN \cup {None}
  BY SessionAssumption DEF PassedState, NotPassed

LEMMA PointsType == \A n \in Nat : CompletionPoints(n) \in 5..20
<1> SUFFICES ASSUME NEW n \in Nat PROVE CompletionPoints(n) \in 5..20
  OBVIOUS
<1> DEFINE x == (2 * (5 * Full + 15 * n) + Full) \div (2 * Full)
<1>1. IsFiniteSet(Item \X (1..Worth))
  <2>1. IsFiniteSet(1..Worth)
    BY ItemsAssumption, FS_Interval
  <2> QED
    BY <2>1, ItemsAssumption, FS_Product
<1>2. Full \in Nat
  BY <1>1, FS_CardinalityType DEF Full
<1>3. CASE Full = 0
  BY <1>3 DEF CompletionPoints
<1>4. CASE Full # 0
  <2>1. x \in Int
    BY <1>2, <1>4
  <2> HIDE DEF x
  <2>2. Within(5, 20, x) \in 5..20
    BY <2>1 DEF Within
  <2>3. CompletionPoints(n) = Within(5, 20, x)
    BY <1>4 DEF CompletionPoints, x
  <2> QED
    BY <2>2, <2>3
<1> QED
  BY <1>3, <1>4

LEMMA TargetType == \A n \in Nat : Target(n) \in {0} \cup 5..20
  BY PointsType DEF Target

LEMMA GotoType ==
  ASSUME TypeOK, NEW p \in Process, NEW next \in Local, Goto(p, next)
  PROVE  proc' \in [Process -> Local]
  BY DEF TypeOK, Goto

LEMMA EndType ==
  ASSUME TypeOK, NEW p \in Process, End(p)
  PROVE  proc' \in [Process -> Local]
  BY LocalTypes, GotoType DEF End

LEMMA AwaitType ==
  ASSUME TypeOK, NEW p \in Process,
         NEW label \in {"grading", "picked", "publish", "abort", "force", "expire", "extend",
                        "warn", "cancel", "penalty"},
         Await(p, label)
  PROVE  proc' \in [Process -> Local]
<1>1. [pc |-> label] \in Local
  BY LocalTypes
<1> QED
  BY <1>1, GotoType DEF Await

\* The columns of the session and its answers, and the history.
RowOK ==
  /\ late \in BOOLEAN
  /\ status \in {"IN_PROGRESS", "SUBMITTED", "GRADED"}
  /\ score \in Nat \cup {None}
  /\ passed \in BOOLEAN \cup {None}
  /\ published \in BOOLEAN
  /\ answered \subseteq Item
  /\ mark \in [Item -> Mark]
  /\ reviewed \subseteq Item
  /\ awarded \in Int
  /\ severity \in Nat /\ warnings \in Nat /\ cancels \in Nat
  /\ races \subseteq {"grade", "award"}

LEMMA TypeParts == (TypeOK <=> RowOK /\ proc \in [Process -> Local])
                   /\ (TypeOK' <=> RowOK' /\ proc' \in [Process -> Local])
  BY DEF TypeOK, RowOK

LEMMA InitTypeOK == Init => TypeOK
<1> SUFFICES ASSUME Init PROVE TypeOK
  OBVIOUS
<1>1. mark \in [Item -> Mark]
  BY DEF Init, Unmarked, Mark
<1>2. proc \in [Process -> Local]
  BY LocalTypes DEF Init
<1>3. late \in BOOLEAN /\ published \in BOOLEAN /\ passed \in BOOLEAN \cup {None}
  BY Zenon DEF Init
<1>4. RowOK
  BY <1>1, <1>3 DEF Init, RowOK
<1> QED
  BY <1>2, <1>4, TypeParts

\* The steps of a process that leave everything but proc and races alone.
LEMMA MoveType ==
  ASSUME TypeOK, NEW p \in Process, NEW next \in Local, Goto(p, next),
         UNCHANGED <<late, result, answers, awarded, conduct>>,
         races' \subseteq {"grade", "award"}
  PROVE  TypeOK'
<1>1. RowOK'
  BY TypeParts DEF RowOK, result, answers, conduct
<1> QED
  BY <1>1, GotoType, TypeParts

LEMMA QuietType ==
  ASSUME TypeOK, NEW p \in Process, NEW next \in Local, Goto(p, next),
         UNCHANGED <<late, result, answers, awarded, conduct, races>>
  PROVE  TypeOK'
  BY MoveType DEF TypeOK

LEMMA StopType ==
  ASSUME TypeOK, NEW p \in Process, End(p),
         UNCHANGED <<late, result, answers, awarded, conduct, races>>
  PROVE  TypeOK'
  BY QuietType, LocalTypes DEF End

LEMMA WaitType ==
  ASSUME TypeOK, NEW p \in Process,
         NEW label \in {"grading", "picked", "publish", "abort", "force", "expire", "extend",
                        "warn", "cancel", "penalty"},
         Await(p, label),
         UNCHANGED <<late, result, answers, awarded, conduct, races>>
  PROVE  TypeOK'
<1>1. [pc |-> label] \in Local
  BY LocalTypes
<1> QED
  BY <1>1, QuietType DEF Await

LEMMA StudentType == ASSUME TypeOK, NEW p \in Process, StudentStep(p) PROVE TypeOK'
<1>0. proc[p] \in Local
  BY DEF TypeOK
<1>1. ASSUME NEW i \in Item, SaveRead(p, i) PROVE TypeOK'
  <2>1. [pc |-> "save", item |-> i] \in Local
    BY LocalTypes
  <2> QED
    BY <1>1, <2>1, QuietType DEF SaveRead
<1>2. CASE SaveWrite(p)
  <2>1. proc' \in [Process -> Local]
    BY <1>2, EndType DEF SaveWrite
  <2>2. proc[p].item \in Item
    BY <1>0, <1>2, LocalFields DEF SaveWrite
  <2> QED
    BY <1>2, <2>1, <2>2 DEF SaveWrite, TypeOK, result, conduct
<1>3. CASE OpenRead(p, "expire")
  BY <1>3, WaitType DEF OpenRead
<1>4. CASE ExpireWrite(p)
  <2>1. proc' \in [Process -> Local]
    BY <1>4, EndType DEF ExpireWrite
  <2>2. NotPassed \in BOOLEAN \cup {None}
    BY SessionAssumption DEF NotPassed
  <2>3. passed' \in BOOLEAN \cup {None}
    BY <1>4, <2>2 DEF ExpireWrite, TypeOK
  <2> QED
    BY <1>4, <2>1, <2>3 DEF ExpireWrite, TypeOK, answers, conduct
<1> QED
  BY <1>1, <1>2, <1>3, <1>4 DEF StudentStep

LEMMA SubmitType ==
  ASSUME TypeOK, NEW p \in Process, SubmitStep(p) \/ JobStep(p) PROVE TypeOK'
<1>1. CASE SubmitRead(p)
  BY <1>1, WaitType DEF SubmitRead
<1>2. ASSUME NEW marks \in [Item -> 0..Worth], SubmitWrite(p, marks) PROVE TypeOK'
  <2>1. Total(marks) \in Nat
    BY TotalType
  <2>2. [pc |-> "sync", score |-> Total(marks)] \in Local
    BY <2>1, LocalTypes
  <2>3. proc' \in [Process -> Local]
    BY <1>2, <2>2, GotoType DEF SubmitWrite
  <2>4. passed' \in BOOLEAN \cup {None}
    BY <1>2, <2>1, PassedType DEF SubmitWrite
  <2>5. marks \in [Item -> Mark]
    BY DEF Mark
  <2>6. published' \in BOOLEAN
    BY <1>2 DEF SubmitWrite
  <2>7. status' \in {"IN_PROGRESS", "SUBMITTED", "GRADED"}
    BY <1>2 DEF SubmitWrite, GradedState
  <2>8. answered' \subseteq Item /\ mark' \in [Item -> Mark] /\ score' \in Nat \cup {None}
    BY <1>2, <2>1, <2>5 DEF SubmitWrite
  <2> QED
    BY <1>2, <2>3, <2>4, <2>6, <2>7, <2>8 DEF SubmitWrite, TypeOK, conduct
<1>3. CASE JobPick(p)
  BY <1>3, WaitType DEF JobPick
<1>4. CASE JobRefused(p)
  BY <1>4, StopType DEF JobRefused
<1> QED
  BY <1>1, <1>2, <1>3, <1>4 DEF SubmitStep, JobStep

LEMMA EntersType ==
  ASSUME TypeOK, NEW p, NEW label, NEW section \in {"grade", "award"}, Enters(p, label, section)
  PROVE  races' \subseteq {"grade", "award"}
  BY DEF TypeOK, Enters

LEMMA GivenType ==
  ASSUME TypeOK, NEW new \in [Item -> Mark] PROVE Given(new) \in [Item -> Mark]
  BY DEF TypeOK, Given

LEMMA LecturerType == ASSUME TypeOK, NEW p \in Process, LecturerStep(p) PROVE TypeOK'
<1>0. proc[p] \in Local
  BY DEF TypeOK
<1>1. ASSUME NEW items \in SUBSET Gradable, GradeRead(p, items) PROVE TypeOK'
  <2>1. items \in (SUBSET Item) \ {{}}
    BY <1>1, ItemsAssumption DEF GradeRead, Gradable
  <2>2. [pc |-> "grade", items |-> items, review |-> TRUE] \in Local
    BY <2>1, LocalTypes
  <2> QED
    BY <1>1, <2>2, QuietType DEF GradeRead
<1>2. ASSUME NEW i \in Code, RegradeRead(p, i) PROVE TypeOK'
  <2>1. {i} \in (SUBSET Item) \ {{}}
    BY ItemsAssumption
  <2>2. [pc |-> "grade", items |-> {i}, review |-> FALSE] \in Local
    BY <2>1, LocalTypes
  <2> QED
    BY <1>2, <2>2, QuietType DEF RegradeRead
<1>3. ASSUME NEW new \in [Item -> Mark], GradeTotal(p, new) PROVE TypeOK'
  <2> DEFINE complete == \A i \in answered : Given(new)[i] # None
             next == [pc |-> "commit", new |-> new, review |-> proc[p].review,
                      total |-> NewTotal(new), complete |-> complete]
  <2>1. NewTotal(new) \in Nat
    BY TotalType DEF NewTotal
  <2>2. proc[p].review \in BOOLEAN
    BY <1>0, <1>3, LocalFields DEF GradeTotal
  <2>3. complete \in BOOLEAN
    OBVIOUS
  <2>4. Goto(p, next)
    BY <1>3 DEF GradeTotal
  <2> HIDE DEF complete
  <2>5. next \in Local
    BY <2>1, <2>2, <2>3, CommitType
  <2>6. races' \subseteq {"grade", "award"}
    BY <1>3, EntersType DEF GradeTotal
  <2>7. UNCHANGED <<late, result, answers, awarded, conduct>>
    BY <1>3 DEF GradeTotal
  <2> HIDE DEF next
  <2> QED
    BY <2>4, <2>5, <2>6, <2>7, MoveType
<1>4. CASE GradeCommit(p)
  <2> DEFINE g == proc[p]
  <2>1. g.new \in [Item -> Mark] /\ g.review \in BOOLEAN /\ g.total \in Nat
        /\ g.complete \in BOOLEAN
    BY <1>0, <1>4, LocalFields DEF GradeCommit
  <2>2. [pc |-> "sync", score |-> g.total] \in Local
    BY <2>1, LocalTypes
  <2>3. proc' \in [Process -> Local]
    BY <1>4, <2>2, GotoType DEF GradeCommit
  <2>4. passed' \in BOOLEAN \cup {None}
    BY <1>4, <2>1, PassedType DEF GradeCommit
  <2>5. mark' \in [Item -> Mark]
    BY <1>4, <2>1, GivenType DEF GradeCommit
  <2>6. status' \in {"IN_PROGRESS", "SUBMITTED", "GRADED"}
    BY <1>4 DEF GradeCommit, GradedState
  <2>7. reviewed' \subseteq Item /\ score' \in Nat \cup {None}
    BY <1>4, <2>1 DEF GradeCommit, TypeOK
  <2> QED
    BY <1>4, <2>3, <2>4, <2>5, <2>6, <2>7 DEF GradeCommit, TypeOK, conduct
<1>5. CASE PublishRead(p)
  BY <1>5, WaitType DEF PublishRead
<1>6. CASE PublishWrite(p)
  <2>1. proc' \in [Process -> Local]
    BY <1>6, EndType DEF PublishWrite
  <2>2. published' \in BOOLEAN
    BY <1>6, Zenon DEF PublishWrite
  <2> QED
    BY <1>6, <2>1, <2>2 DEF PublishWrite, TypeOK, answers, conduct
<1> QED
  BY <1>1, <1>2, <1>3, <1>4, <1>5, <1>6 DEF LecturerStep

LEMMA RewardType == ASSUME TypeOK, NEW p \in Process, RewardStep(p) PROVE TypeOK'
<1>0. proc[p] \in Local
  BY DEF TypeOK
<1>1. CASE SyncRead(p)
  <2> DEFINE delta == Missing(proc[p].score)
  <2>1. delta \in Int
    <3>1. proc[p].score \in Nat
      BY <1>0, <1>1, LocalFields DEF SyncRead
    <3>2. Target(proc[p].score) \in Int
      BY <3>1, TargetType
    <3> QED
      BY <3>2 DEF Missing, TypeOK
  <2>2. CASE delta = 0
    BY <1>1, <2>2, StopType DEF SyncRead
  <2>3. CASE delta # 0
    <3>1. [pc |-> "award", delta |-> delta] \in Local
      BY <2>1, LocalTypes
    <3>2. races' \subseteq {"grade", "award"}
      BY <1>1, <2>3, EntersType DEF SyncRead
    <3> QED
      BY <1>1, <2>3, <3>1, <3>2, MoveType DEF SyncRead
  <2> QED
    BY <2>2, <2>3
<1>2. CASE AwardWrite(p)
  <2>1. proc' \in [Process -> Local]
    BY <1>2, EndType DEF AwardWrite
  <2>2. proc[p].delta \in Int
    BY <1>0, <1>2, LocalFields DEF AwardWrite
  <2> QED
    BY <1>2, <2>1, <2>2 DEF AwardWrite, TypeOK, result, answers, conduct
<1> QED
  BY <1>1, <1>2 DEF RewardStep

LEMMA MonitorType == ASSUME TypeOK, NEW p \in Process, MonitorStep(p) PROVE TypeOK'
<1>1. ASSUME NEW label \in {"abort", "force", "extend"}, OpenRead(p, label) PROVE TypeOK'
  BY <1>1, WaitType DEF OpenRead
<1>n. NotPassed \in BOOLEAN \cup {None}
  BY SessionAssumption DEF NotPassed
<1>2. CASE AbortWrite(p)
  <2>1. proc' \in [Process -> Local]
    BY <1>2, EndType DEF AbortWrite
  <2> QED
    BY <1>2, <2>1, <1>n DEF AbortWrite, TypeOK, answers
<1>3. CASE ForceWrite(p)
  <2>1. proc' \in [Process -> Local]
    BY <1>3, EndType DEF ForceWrite
  <2> QED
    BY <1>3, <2>1, <1>n DEF ForceWrite, TypeOK, answers, conduct
<1>4. CASE ExtendWrite(p)
  <2>1. proc' \in [Process -> Local]
    BY <1>4, EndType DEF ExtendWrite
  <2> QED
    BY <1>4, <2>1 DEF ExtendWrite, TypeOK, result, answers, conduct
<1> QED
  BY <1>1, <1>2, <1>3, <1>4 DEF MonitorStep

LEMMA ReportStepType == ASSUME TypeOK, NEW p \in Process, ReportStep(p) PROVE TypeOK'
<1>0. proc[p] \in Local
  BY DEF TypeOK
<1>1. ASSUME NEW level \in 1..3, ReportRead(p, level) PROVE TypeOK'
  <2> DEFINE open == status = "IN_PROGRESS"
             next == [pc |-> "log", level |-> level, open |-> open]
  <2>1. Goto(p, next)
    BY <1>1 DEF ReportRead
  <2>2. open \in BOOLEAN
    OBVIOUS
  <2> HIDE DEF open
  <2>3. next \in Local
    BY <2>2, ReportType
  <2> HIDE DEF next
  <2> QED
    BY <1>1, <2>1, <2>3, QuietType DEF ReportRead
<1>2. CASE ReportLog(p)
  <2>1. proc[p].level \in 1..3 /\ proc[p].open \in BOOLEAN
    BY <1>0, <1>2, LocalFields DEF ReportLog
  <2>2. [pc |-> "sum", level |-> proc[p].level, open |-> proc[p].open] \in Local
    BY <2>1, ReportType
  <2>3. proc' \in [Process -> Local]
    BY <1>2, <2>2, GotoType DEF ReportLog
  <2> QED
    BY <1>2, <2>1, <2>3 DEF ReportLog, TypeOK, result, answers
<1>3. CASE ReportSum(p)
  BY <1>3, WaitType, StopType DEF ReportSum
<1>4. CASE CancelWrite(p)
  <2>1. proc' \in [Process -> Local]
    BY <1>4, AwaitType DEF CancelWrite
  <2> QED
    BY <1>4, <2>1 DEF CancelWrite, TypeOK, answers, conduct
<1>5. CASE PenaltyWrite(p)
  <2>1. proc' \in [Process -> Local]
    BY <1>5, EndType DEF PenaltyWrite
  <2> QED
    BY <1>5, <2>1 DEF PenaltyWrite, TypeOK, result, answers
<1>6. CASE WarnWrite(p)
  <2>1. proc' \in [Process -> Local]
    BY <1>6, EndType DEF WarnWrite
  <2> QED
    BY <1>6, <2>1 DEF WarnWrite, TypeOK, result, answers
<1> QED
  BY <1>1, <1>2, <1>3, <1>4, <1>5, <1>6 DEF ReportStep

LEMMA NextTypeOK == TypeOK /\ [Next]_vars => TypeOK'
<1> SUFFICES ASSUME TypeOK, [Next]_vars PROVE TypeOK'
  OBVIOUS
<1>1. ASSUME NEW p \in Process, Step(p) PROVE TypeOK'
  BY <1>1, StudentType, SubmitType, LecturerType, RewardType, MonitorType, ReportStepType
     DEF Step
<1>2. ASSUME NEW p \in Process, Fail(p) PROVE TypeOK'
  BY <1>2, StopType DEF Fail
<1>3. CASE Deadline
  BY <1>3, Zenon DEF Deadline, TypeOK, result, answers, conduct
<1>4. CASE UNCHANGED vars
  BY <1>4 DEF vars, TypeOK, result, answers, conduct
<1> QED
  BY <1>1, <1>2, <1>3, <1>4 DEF Next

(***************************************************************************)
(* The session, its answers and what every handler has read keep their     *)
(* types (a score is null or a natural number, whoever writes it).         *)
(***************************************************************************)
THEOREM ResultTypes == Spec => []TypeOK
  BY InitTypeOK, NextTypeOK, PTL DEF Spec

-----------------------------------------------------------------------------
(* Nothing unreviewed is published *)

\* A publication under way has seen the reviews, and what the judge marks is a
\* program, whose review nobody waits for.
Reviews(l) ==
  /\ l.pc = "publish" => Short \subseteq reviewed
  /\ l.pc = "grade" /\ ~l.review => l.items \subseteq Code
  /\ l.pc = "commit" /\ ~l.review => {i \in Item : l.new[i] # None} \subseteq Code

ReviewInv == ReviewedBeforePublished /\ \A p \in Process : Reviews(proc[p])

LEMMA StudentReviews ==
  ASSUME TypeOK, ReviewInv, NEW p \in Process, StudentStep(p) PROVE ReviewInv'
<1> USE DEF Goto, End, Await, Idle
<1>0. proc \in [Process -> Local]
  BY DEF TypeOK
<1> QED
  BY <1>0 DEF StudentStep, ReviewInv, ReviewedBeforePublished, Reviews, SaveRead, SaveWrite,
              OpenRead, ExpireWrite, result, answers, conduct

LEMMA MonitorReviews ==
  ASSUME TypeOK, ReviewInv, NEW p \in Process, MonitorStep(p) PROVE ReviewInv'
<1> USE DEF Goto, End, Await, Idle
<1>0. proc \in [Process -> Local]
  BY DEF TypeOK
<1> QED
  BY <1>0 DEF MonitorStep, ReviewInv, ReviewedBeforePublished, Reviews, OpenRead, AbortWrite,
              ForceWrite, ExtendWrite, result, answers, conduct

LEMMA ReportReviews ==
  ASSUME TypeOK, ReviewInv, NEW p \in Process, ReportStep(p) PROVE ReviewInv'
<1> USE DEF Goto, End, Await, Idle
<1>0. proc \in [Process -> Local]
  BY DEF TypeOK
<1> QED
  BY <1>0 DEF ReportStep, ReviewInv, ReviewedBeforePublished, Reviews, ReportRead, ReportLog,
              ReportSum, CancelWrite, PenaltyWrite, WarnWrite, result, answers, conduct

LEMMA SubmitReviews ==
  ASSUME TypeOK, ReviewInv, NEW p \in Process, SubmitStep(p) PROVE ReviewInv'
<1> USE DEF Goto, End, Await, Idle
<1>0. proc \in [Process -> Local]
  BY DEF TypeOK
<1>1. CASE SubmitRead(p)
  BY <1>0, <1>1 DEF SubmitRead, ReviewInv, ReviewedBeforePublished, Reviews, result, answers
<1>2. ASSUME NEW marks \in [Item -> 0..Worth], SubmitWrite(p, marks) PROVE ReviewInv'
  <2>1. ReviewedBeforePublished'
    BY <1>2 DEF SubmitWrite, ReviewedBeforePublished
  <2>2. \A q \in Process : Reviews(proc[q])'
    BY <1>0, <1>2 DEF SubmitWrite, ReviewInv, Reviews, conduct
  <2> QED
    BY <2>1, <2>2 DEF ReviewInv
<1> QED
  BY <1>1, <1>2 DEF SubmitStep

LEMMA QuietReviews ==
  ASSUME TypeOK, ReviewInv, NEW p \in Process, RewardStep(p) \/ JobStep(p) \/ Fail(p)
  PROVE  ReviewInv'
<1> USE DEF Goto, End, Await, Idle
<1>0. proc \in [Process -> Local]
  BY DEF TypeOK
<1> QED
  BY <1>0 DEF RewardStep, JobStep, Fail, ReviewInv, ReviewedBeforePublished, Reviews, SyncRead,
              AwardWrite, JobPick, JobRefused, result, answers, conduct

LEMMA LecturerReviews ==
  ASSUME TypeOK, ReviewInv, NEW p \in Process, LecturerStep(p) PROVE ReviewInv'
<1> USE DEF Goto, End, Await, Idle
<1>0. proc \in [Process -> Local]
  BY DEF TypeOK
<1> QED
  BY <1>0, ItemsAssumption
     DEF LecturerStep, ReviewInv, ReviewedBeforePublished, Reviews, GradeRead, RegradeRead,
         GradeTotal, GradeCommit, PublishRead, PublishWrite, MayPublish, result, answers, conduct

LEMMA NextReviewInv == TypeOK /\ ReviewInv /\ [Next]_vars => ReviewInv'
<1> SUFFICES ASSUME TypeOK, ReviewInv, [Next]_vars PROVE ReviewInv'
  OBVIOUS
<1>1. ASSUME NEW p \in Process, Step(p) PROVE ReviewInv'
  BY <1>1, StudentReviews, LecturerReviews, MonitorReviews, ReportReviews, SubmitReviews,
     QuietReviews DEF Step
<1>2. ASSUME NEW p \in Process, Fail(p) PROVE ReviewInv'
  BY <1>2, QuietReviews
<1>3. CASE Deadline
  BY <1>3 DEF Deadline, ReviewInv, ReviewedBeforePublished, Reviews, result, answers
<1>4. CASE UNCHANGED vars
  BY <1>4 DEF vars, ReviewInv, ReviewedBeforePublished, Reviews, result, answers
<1> QED
  BY <1>1, <1>2, <1>3, <1>4 DEF Next

LEMMA InitReviewInv == Init => ReviewInv
  BY DEF Init, ReviewInv, ReviewedBeforePublished, Reviews, Idle

(***************************************************************************)
(* publishSessionResults: the result of an EXAM with short answers is      *)
(* published only when all of them are reviewed, for any number of         *)
(* handlers that submit, grade, judge again and publish at once.           *)
(***************************************************************************)
THEOREM PublishedIsReviewed == Spec => []ReviewedBeforePublished
<1>1. ReviewInv => ReviewedBeforePublished
  BY DEF ReviewInv
<1> QED
  BY <1>1, InitTypeOK, NextTypeOK, InitReviewInv, NextReviewInv, PTL DEF Spec

-----------------------------------------------------------------------------
(* The score is the sum of the marks *)

Touched(l) == {i \in Item : l.new[i] # None}

\* While gradings do not race, the one open transaction has the total of the marks
\* as they are, and whoever submits waits for it.
SumInv ==
  "grade" \notin races =>
    /\ status = "GRADED" => score = Total(mark)
    /\ \A p \in Process : proc[p].pc = "commit"
         => /\ Touched(proc[p]) # {}
            /\ proc[p].total = Total(Given(proc[p].new))
            /\ \A q \in Process : proc[q].pc = "commit" => q = p

\* A step that changes no mark, opens no grading transaction and grades nothing.
Ungraded ==
  /\ races \subseteq races'
  /\ mark' = mark
  /\ status' = "GRADED" => status = "GRADED" /\ score' = score
  /\ \A q \in Process : proc'[q].pc = "commit" => proc'[q] = proc[q]

LEMMA UngradedKeeps == ASSUME SumInv, Ungraded PROVE SumInv'
<1>1. \A new : Given(new)' = Given(new)
  BY DEF Ungraded, Given
<1> QED
  BY <1>1 DEF SumInv, Ungraded, Touched

LEMMA StudentUngraded ==
  ASSUME TypeOK, NEW p \in Process, StudentStep(p) \/ JobStep(p) \/ Fail(p) PROVE Ungraded
<1> USE DEF Goto, End, Await, Idle
<1>0. proc \in [Process -> Local]
  BY DEF TypeOK
<1> QED
  BY <1>0 DEF StudentStep, JobStep, Fail, Ungraded, SaveRead, SaveWrite, OpenRead, ExpireWrite,
              JobPick, JobRefused, answers, result

LEMMA MonitorUngraded ==
  ASSUME TypeOK, NEW p \in Process, MonitorStep(p) \/ RewardStep(p) PROVE Ungraded
<1> USE DEF Goto, End, Await, Idle
<1>0. proc \in [Process -> Local]
  BY DEF TypeOK
<1>1. ASSUME NEW label \in {"abort", "force", "extend"}, OpenRead(p, label) PROVE Ungraded
  BY <1>0, <1>1 DEF OpenRead, Ungraded, answers, result
<1>2. CASE AbortWrite(p) \/ ForceWrite(p) \/ ExtendWrite(p)
  BY <1>0, <1>2 DEF AbortWrite, ForceWrite, ExtendWrite, Ungraded, answers, result
<1>3. CASE SyncRead(p)
  BY <1>0, <1>3 DEF SyncRead, Enters, Ungraded, answers, result
<1>4. CASE AwardWrite(p)
  BY <1>0, <1>4 DEF AwardWrite, Ungraded, answers, result
<1> QED
  BY <1>1, <1>2, <1>3, <1>4 DEF MonitorStep, RewardStep

LEMMA ReportUngraded == ASSUME TypeOK, NEW p \in Process, ReportStep(p) PROVE Ungraded
<1> USE DEF Goto, End, Await, Idle
<1>0. proc \in [Process -> Local]
  BY DEF TypeOK
<1> QED
  BY <1>0 DEF ReportStep, Ungraded, ReportRead, ReportLog, ReportSum, CancelWrite, PenaltyWrite,
              WarnWrite, answers, result

\* The submitting transaction waits for the locks of a grading one.
LEMMA SubmitSums == ASSUME TypeOK, SumInv, NEW p \in Process, SubmitStep(p) PROVE SumInv'
<1> USE DEF Goto, End, Await, Idle
<1>0. proc \in [Process -> Local]
  BY DEF TypeOK
<1>1. CASE SubmitRead(p)
  <2>1. Ungraded
    BY <1>0, <1>1 DEF SubmitRead, Ungraded, answers, result
  <2> QED
    BY <2>1, UngradedKeeps
<1>2. ASSUME NEW marks \in [Item -> 0..Worth], SubmitWrite(p, marks) PROVE SumInv'
  <2>1. score' = Total(mark') /\ races' = races
    BY <1>2 DEF SubmitWrite
  <2>2. ASSUME NEW q \in Process, proc'[q].pc = "commit" PROVE "grade" \in races
    <3>1. proc[q].pc = "commit"
      BY <1>0, <1>2, <2>2 DEF SubmitWrite
    <3>2. Touched(proc[q]) = {}
      BY <1>2, <3>1 DEF SubmitWrite, Locked, Touched
    <3> QED
      BY <3>1, <3>2 DEF SumInv
  <2> QED
    BY <2>1, <2>2 DEF SumInv, Total
<1> QED
  BY <1>1, <1>2 DEF SubmitStep

LEMMA TotalSums ==
  ASSUME TypeOK, SumInv, NEW p \in Process, NEW new \in [Item -> Mark], GradeTotal(p, new)
  PROVE  SumInv'
<1> USE DEF Goto
<1>0. proc \in [Process -> Local]
  BY DEF TypeOK
<1> DEFINE next == [pc |-> "commit", new |-> new, review |-> proc[p].review,
                    total |-> NewTotal(new),
                    complete |-> \A i \in answered : Given(new)[i] # None]
<1>1. proc'[p] = next /\ \A q \in Process : q # p => proc'[q] = proc[q]
  BY <1>0 DEF GradeTotal
<1>2. next.pc = "commit" /\ next.new = new /\ next.total = Total(Given(new))
  BY DEF NewTotal
<1> HIDE DEF next
<1>3. Touched(next) # {}
  <2>1. proc[p].items # {}
    BY <1>0, LocalFields DEF GradeTotal
  <2> QED
    BY <1>2, <2>1 DEF GradeTotal, Touched
<1>4. UNCHANGED <<mark, status, score>> /\ races \subseteq races'
  BY DEF GradeTotal, Enters, answers, result
<1>5. "grade" \notin races' => \A q \in Process : proc[q].pc = "commit" => q = p
  BY DEF GradeTotal, Enters, At
<1>6. ASSUME "grade" \notin races' PROVE \A q \in Process : proc'[q].pc = "commit" => q = p
  BY <1>1, <1>5, <1>6
<1>7. ASSUME "grade" \notin races', status' = "GRADED" PROVE score' = Total(mark')
  BY <1>4, <1>7 DEF SumInv
<1>8. proc'[p].new = new /\ proc'[p].total = Total(Given(new)) /\ Touched(proc'[p]) # {}
  BY <1>1, <1>2, <1>3
<1>9. Total(Given(proc[p].new))' = Total(Given(new))
  BY <1>4, <1>8 DEF Total, Given
<1>10. Touched(proc[p])' = Touched(proc'[p]) /\ Total(mark)' = Total(mark')
  BY DEF Touched
<1> QED
  BY <1>6, <1>7, <1>8, <1>9, <1>10 DEF SumInv

LEMMA LecturerSums == ASSUME TypeOK, SumInv, NEW p \in Process, LecturerStep(p) PROVE SumInv'
<1> USE DEF Goto, End, Await, Idle
<1>0. proc \in [Process -> Local]
  BY DEF TypeOK
<1>1. ASSUME NEW items \in SUBSET Gradable, GradeRead(p, items) PROVE SumInv'
  <2>1. Ungraded
    BY <1>0, <1>1 DEF GradeRead, Ungraded, answers, result
  <2> QED
    BY <2>1, UngradedKeeps
<1>2. ASSUME NEW i \in Code, RegradeRead(p, i) PROVE SumInv'
  <2>1. Ungraded
    BY <1>0, <1>2 DEF RegradeRead, Ungraded, answers, result
  <2> QED
    BY <2>1, UngradedKeeps
<1>3. ASSUME NEW new \in [Item -> Mark], GradeTotal(p, new) PROVE SumInv'
  BY <1>3, TotalSums
<1>4. CASE GradeCommit(p)
  <2>1. /\ mark' = Given(proc[p].new) /\ score' = proc[p].total /\ races' = races
        /\ proc[p].pc = "commit"
    BY <1>4 DEF GradeCommit
  <2>2. \A q \in Process : proc'[q].pc = "commit" => q # p /\ proc[q].pc = "commit"
    BY <1>0, <1>4 DEF GradeCommit
  <2>3. ASSUME "grade" \notin races
        PROVE  score' = Total(mark') /\ \A q \in Process : proc'[q].pc # "commit"
    BY <2>1, <2>2, <2>3 DEF SumInv
  <2> QED
    BY <2>1, <2>3 DEF SumInv, Total
<1>5. CASE PublishRead(p) \/ PublishWrite(p)
  <2>1. Ungraded
    BY <1>0, <1>5 DEF PublishRead, PublishWrite, Ungraded, answers, result
  <2> QED
    BY <2>1, UngradedKeeps
<1> QED
  BY <1>1, <1>2, <1>3, <1>4, <1>5 DEF LecturerStep

LEMMA NextSumInv == TypeOK /\ SumInv /\ [Next]_vars => SumInv'
<1> SUFFICES ASSUME TypeOK, SumInv, [Next]_vars PROVE SumInv'
  OBVIOUS
<1>1. ASSUME NEW p \in Process, Step(p) PROVE SumInv'
  BY <1>1, UngradedKeeps, StudentUngraded, MonitorUngraded, ReportUngraded, SubmitSums,
     LecturerSums DEF Step
<1>2. ASSUME NEW p \in Process, Fail(p) PROVE SumInv'
  BY <1>2, UngradedKeeps, StudentUngraded
<1>3. CASE Deadline \/ UNCHANGED vars
  <2>1. Ungraded
    BY <1>3 DEF Deadline, vars, Ungraded, result, answers
  <2> QED
    BY <2>1, UngradedKeeps
<1> QED
  BY <1>1, <1>2, <1>3 DEF Next

LEMMA InitSumInv == Init => SumInv
  BY DEF Init, SumInv, Idle

(***************************************************************************)
(* gradeSession, regradeProblemItem and submitSession: the score of a      *)
(* graded session is the sum of its marks for any exam and any number of   *)
(* handlers, unless two grading transactions were open at once.            *)
(***************************************************************************)
THEOREM ScoresAreSums == Spec => []ScoreIsSum
<1>1. SumInv => ScoreIsSum
  BY DEF SumInv, ScoreIsSum
<1> QED
  BY <1>1, InitTypeOK, NextTypeOK, InitSumInv, NextSumInv, PTL DEF Spec

-----------------------------------------------------------------------------
(* The points awarded stay in their range *)

InRange == {0} \cup 5..20

\* A correction under way brings the sum into the range, if it is alone.
AwardInv ==
  "award" \notin races =>
    /\ awarded \in InRange
    /\ \A p \in Process : proc[p].pc = "award"
         => /\ awarded + proc[p].delta \in InRange
            /\ \A q \in Process : proc[q].pc = "award" => q = p

\* A step that awards nothing and starts no correction.
Unawarded ==
  /\ races \subseteq races' /\ awarded' = awarded
  /\ \A q \in Process : proc'[q].pc = "award" => proc'[q] = proc[q]

LEMMA UnawardedKeeps == ASSUME AwardInv, Unawarded PROVE AwardInv'
  BY DEF AwardInv, Unawarded

LEMMA StudentUnawarded ==
  ASSUME TypeOK, NEW p \in Process, StudentStep(p) \/ JobStep(p) \/ Fail(p) PROVE Unawarded
<1> USE DEF Goto, End, Await, Idle
<1>0. proc \in [Process -> Local]
  BY DEF TypeOK
<1> QED
  BY <1>0 DEF StudentStep, JobStep, Fail, Unawarded, SaveRead, SaveWrite, OpenRead, ExpireWrite,
              JobPick, JobRefused

LEMMA MonitorUnawarded ==
  ASSUME TypeOK, NEW p \in Process, MonitorStep(p) \/ ReportStep(p) PROVE Unawarded
<1> USE DEF Goto, End, Await, Idle
<1>0. proc \in [Process -> Local]
  BY DEF TypeOK
<1>1. CASE MonitorStep(p)
  BY <1>0, <1>1 DEF MonitorStep, OpenRead, AbortWrite, ForceWrite, ExtendWrite, Unawarded
<1>2. CASE ReportStep(p)
  BY <1>0, <1>2 DEF ReportStep, Unawarded, ReportRead, ReportLog, ReportSum, CancelWrite,
                    PenaltyWrite, WarnWrite
<1> QED
  BY <1>1, <1>2

LEMMA LecturerUnawarded ==
  ASSUME TypeOK, NEW p \in Process, SubmitStep(p) \/ LecturerStep(p) PROVE Unawarded
<1> USE DEF Goto, End, Await, Idle
<1>0. proc \in [Process -> Local]
  BY DEF TypeOK
<1>1. CASE SubmitRead(p)
  BY <1>0, <1>1 DEF SubmitRead, Unawarded
<1>2. ASSUME NEW marks \in [Item -> 0..Worth], SubmitWrite(p, marks) PROVE Unawarded
  BY <1>0, <1>2 DEF SubmitWrite, Unawarded
<1>3. CASE LecturerStep(p)
  BY <1>0, <1>3 DEF LecturerStep, Unawarded, GradeRead, RegradeRead, GradeTotal, Enters,
                    GradeCommit, PublishRead, PublishWrite
<1> QED
  BY <1>1, <1>2, <1>3 DEF SubmitStep

LEMMA RewardAwards ==
  ASSUME TypeOK, AwardInv, NEW p \in Process, RewardStep(p) PROVE AwardInv'
<1> USE DEF Goto, End, Await, Idle
<1>0. proc \in [Process -> Local] /\ awarded \in Int
  BY DEF TypeOK
<1>1. CASE SyncRead(p)
  <2>1. proc[p].score \in Nat
    BY <1>0, <1>1, LocalFields DEF SyncRead
  <2>2. Target(proc[p].score) \in InRange /\ Target(proc[p].score) \in Int
    BY <2>1, TargetType DEF InRange
  <2>3. awarded + Missing(proc[p].score) \in InRange
    BY <1>0, <2>2 DEF Missing
  <2>4. CASE Missing(proc[p].score) = 0
    <3>1. Unawarded
      BY <1>0, <1>1, <2>4 DEF SyncRead, Unawarded
    <3> QED
      BY <3>1, UnawardedKeeps
  <2>5. CASE Missing(proc[p].score) # 0
    <3>1. /\ proc'[p] = [pc |-> "award", delta |-> Missing(proc[p].score)]
          /\ \A q \in Process : q # p => proc'[q] = proc[q]
      BY <1>0, <1>1, <2>5 DEF SyncRead
    <3>2. "award" \notin races'
            => "award" \notin races /\ \A q \in Process : proc[q].pc = "award" => q = p
      BY <1>1, <2>5 DEF SyncRead, Enters, At
    <3>3. awarded' = awarded
      BY <1>1 DEF SyncRead
    <3> QED
      BY <2>3, <3>1, <3>2, <3>3 DEF AwardInv
  <2> QED
    BY <2>4, <2>5
<1>2. CASE AwardWrite(p)
  <2>1. /\ proc[p].pc = "award" /\ awarded' = awarded + proc[p].delta /\ races' = races
        /\ \A q \in Process : proc'[q].pc = "award" => q # p /\ proc[q].pc = "award"
    BY <1>0, <1>2 DEF AwardWrite
  <2> QED
    BY <2>1 DEF AwardInv
<1> QED
  BY <1>1, <1>2 DEF RewardStep

LEMMA NextAwardInv == TypeOK /\ AwardInv /\ [Next]_vars => AwardInv'
<1> SUFFICES ASSUME TypeOK, AwardInv, [Next]_vars PROVE AwardInv'
  OBVIOUS
<1>1. ASSUME NEW p \in Process, Step(p) PROVE AwardInv'
  BY <1>1, UnawardedKeeps, StudentUnawarded, MonitorUnawarded, LecturerUnawarded, RewardAwards
     DEF Step
<1>2. ASSUME NEW p \in Process, Fail(p) PROVE AwardInv'
  BY <1>2, UnawardedKeeps, StudentUnawarded
<1>3. CASE Deadline \/ UNCHANGED vars
  BY <1>3 DEF Deadline, vars, AwardInv
<1> QED
  BY <1>1, <1>2, <1>3 DEF Next

LEMMA InitAwardInv == Init => AwardInv
  BY DEF Init, AwardInv, InRange, Idle

(***************************************************************************)
(* syncExamCompletionPoints: the points awarded for a session are 0 or     *)
(* between 5 and 20 whatever is graded again, for any number of items and  *)
(* points, unless two corrections were in flight at once.                  *)
(***************************************************************************)
THEOREM AwardsStayInRange == Spec => []AwardInRange
<1>1. AwardInv => AwardInRange
  BY DEF AwardInv, AwardInRange, InRange
<1> QED
  BY <1>1, InitTypeOK, NextTypeOK, InitAwardInv, NextAwardInv, PTL DEF Spec

-----------------------------------------------------------------------------
(* Warnings and cancellation *)

\* What one process more or less does to the number of those at some label.
LEMMA Counting ==
  ASSUME NEW S \in SUBSET Process, NEW T \in SUBSET Process, NEW p \in Process
  PROVE  /\ IsFiniteSet(S) /\ Cardinality(S) \in Nat /\ Cardinality(Process) \in Nat
         /\ Cardinality(S) <= Cardinality(Process)
         /\ T \subseteq S => Cardinality(T) <= Cardinality(S)
         /\ T \subseteq S \cup {p} => Cardinality(T) <= Cardinality(S) + 1
         /\ p \in S /\ T \subseteq S \ {p} => Cardinality(T) <= Cardinality(S) - 1
<1>1. IsFiniteSet(Process) /\ IsFiniteSet(S) /\ IsFiniteSet(T)
  BY HandlersAssumption, FS_Subset
<1>2. /\ Cardinality(S) \in Nat /\ Cardinality(T) \in Nat /\ Cardinality(Process) \in Nat
      /\ Cardinality(S) <= Cardinality(Process)
  BY <1>1, FS_Subset, FS_CardinalityType
<1>3. T \subseteq S => Cardinality(T) <= Cardinality(S)
  BY <1>1, FS_Subset
<1>4. ASSUME T \subseteq S \cup {p} PROVE Cardinality(T) <= Cardinality(S) + 1
  <2>1. /\ IsFiniteSet(S \cup {p})
        /\ Cardinality(S \cup {p}) = IF p \in S THEN Cardinality(S) ELSE Cardinality(S) + 1
    BY <1>1, FS_AddElement
  <2>2. Cardinality(T) <= Cardinality(S \cup {p})
    BY <1>4, <2>1, FS_Subset
  <2> QED
    BY <1>2, <2>1, <2>2
<1>5. ASSUME p \in S, T \subseteq S \ {p} PROVE Cardinality(T) <= Cardinality(S) - 1
  <2>1. IsFiniteSet(S \ {p}) /\ Cardinality(S \ {p}) = Cardinality(S) - 1
    BY <1>1, <1>5, FS_RemoveElement
  <2>2. Cardinality(T) <= Cardinality(S \ {p})
    BY <1>5, <2>1, FS_Subset
  <2> QED
    BY <2>1, <2>2
<1> QED
  BY <1>1, <1>2, <1>3, <1>4, <1>5

Warners == {p \in Process : proc[p].pc = "warn"}
Majors == {p \in Process : proc[p].pc = "sum" /\ proc[p].level > 1}

\* Warnings charged and about to be charged.
Due == warnings + Cardinality(Warners)

\* They and the reports that may warn next are each paid for by two points of severity.
WarningInv ==
  /\ 2 * (Due + Cardinality(Majors)) <= severity
  /\ 2 * Due < CancelAt

\* A step that warns nobody.
Unwarned ==
  /\ Warners' \subseteq Warners /\ Majors' \subseteq Majors
  /\ warnings' = warnings /\ severity <= severity'

LEMMA WarnTypes ==
  ASSUME TypeOK
  PROVE  /\ Warners \in SUBSET Process /\ Majors \in SUBSET Process
         /\ Warners' \in SUBSET Process /\ Majors' \in SUBSET Process
         /\ severity \in Nat /\ warnings \in Nat /\ CancelAt \in Nat
         /\ Cardinality(Warners) \in Nat /\ Cardinality(Majors) \in Nat
<1>1. /\ Warners \in SUBSET Process /\ Majors \in SUBSET Process
      /\ Warners' \in SUBSET Process /\ Majors' \in SUBSET Process
  BY DEF Warners, Majors
<1>2. severity \in Nat /\ warnings \in Nat /\ CancelAt \in Nat
  BY SeverityAssumption DEF TypeOK
<1>3. IsFiniteSet(Warners) /\ IsFiniteSet(Majors)
  BY <1>1, HandlersAssumption, FS_Subset
<1>4. Cardinality(Warners) \in Nat /\ Cardinality(Majors) \in Nat
  BY <1>3, FS_CardinalityType
<1> QED
  BY <1>1, <1>2, <1>4

LEMMA UnwarnedKeeps ==
  ASSUME TypeOK, TypeOK', WarningInv, Unwarned, NEW p \in Process PROVE WarningInv'
<1>1. Cardinality(Warners') <= Cardinality(Warners) /\ Cardinality(Majors') <= Cardinality(Majors)
  BY WarnTypes, Counting DEF Unwarned
<1>2. Cardinality(Warners') \in Nat /\ Cardinality(Majors') \in Nat
  BY WarnTypes, Counting
<1>3. severity' \in Nat
  BY DEF TypeOK
<1> QED
  BY <1>1, <1>2, <1>3, WarnTypes DEF Unwarned, WarningInv, Due

LEMMA StudentUnwarned ==
  ASSUME TypeOK, NEW p \in Process, StudentStep(p) \/ JobStep(p) \/ Fail(p) PROVE Unwarned
<1> USE DEF Goto, End, Await, Idle
<1>0. proc \in [Process -> Local] /\ severity \in Nat
  BY DEF TypeOK
<1> QED
  BY <1>0 DEF StudentStep, JobStep, Fail, Unwarned, Warners, Majors, SaveRead, SaveWrite,
              OpenRead, ExpireWrite, JobPick, JobRefused, conduct

LEMMA SubmitUnwarned ==
  ASSUME TypeOK, NEW p \in Process, SubmitStep(p) \/ RewardStep(p) PROVE Unwarned
<1> USE DEF Goto, End, Await, Idle
<1>0. proc \in [Process -> Local] /\ severity \in Nat
  BY DEF TypeOK
<1>1. CASE SubmitRead(p)
  BY <1>0, <1>1 DEF Unwarned, Warners, Majors, SubmitRead, conduct
<1>2. ASSUME NEW marks \in [Item -> 0..Worth], SubmitWrite(p, marks) PROVE Unwarned
  BY <1>0, <1>2 DEF Unwarned, Warners, Majors, SubmitWrite, conduct
<1>3. CASE SyncRead(p)
  BY <1>0, <1>3 DEF Unwarned, Warners, Majors, SyncRead, conduct
<1>4. CASE AwardWrite(p)
  BY <1>0, <1>4 DEF Unwarned, Warners, Majors, AwardWrite, conduct
<1> QED
  BY <1>1, <1>2, <1>3, <1>4 DEF SubmitStep, RewardStep

LEMMA MonitorUnwarned == ASSUME TypeOK, NEW p \in Process, MonitorStep(p) PROVE Unwarned
<1> USE DEF Goto, End, Await, Idle
<1>0. proc \in [Process -> Local] /\ severity \in Nat
  BY DEF TypeOK
<1>1. ASSUME NEW label \in {"abort", "force", "extend"}, OpenRead(p, label) PROVE Unwarned
  BY <1>0, <1>1 DEF OpenRead, Unwarned, Warners, Majors, conduct
<1>2. CASE AbortWrite(p)
  BY <1>0, <1>2 DEF AbortWrite, Unwarned, Warners, Majors
<1>3. CASE ForceWrite(p) \/ ExtendWrite(p)
  BY <1>0, <1>3 DEF ForceWrite, ExtendWrite, Unwarned, Warners, Majors, conduct
<1> QED
  BY <1>1, <1>2, <1>3 DEF MonitorStep

LEMMA LecturerUnwarned == ASSUME TypeOK, NEW p \in Process, LecturerStep(p) PROVE Unwarned
<1> USE DEF Goto, End, Await, Idle
<1>0. proc \in [Process -> Local] /\ severity \in Nat
  BY DEF TypeOK
<1> QED
  BY <1>0 DEF LecturerStep, Unwarned, Warners, Majors, GradeRead, RegradeRead, GradeTotal,
              GradeCommit, PublishRead, PublishWrite, conduct

LEMMA ReportWarnings ==
  ASSUME TypeOK, TypeOK', WarningInv, NEW p \in Process, ReportStep(p) PROVE WarningInv'
<1> USE DEF Goto, End, Await, Idle
<1>0. proc \in [Process -> Local] /\ severity \in Nat /\ severity' \in Nat
  BY DEF TypeOK
<1>1. ASSUME NEW level \in 1..3, ReportRead(p, level) PROVE WarningInv'
  <2>1. Unwarned
    BY <1>0, <1>1 DEF ReportRead, Unwarned, Warners, Majors, conduct
  <2> QED
    BY <2>1, UnwarnedKeeps
<1>2. CASE ReportLog(p)
  <2>1. proc[p].level \in 1..3
    BY <1>0, <1>2, LocalFields DEF ReportLog
  <2>2. /\ Warners' \subseteq Warners /\ warnings' = warnings
        /\ Majors' \subseteq Majors \cup {p}
        /\ proc[p].level = 1 => Majors' \subseteq Majors
        /\ severity' = severity + proc[p].level
    BY <1>0, <1>2 DEF ReportLog, Warners, Majors
  <2>3. /\ Cardinality(Warners') <= Cardinality(Warners)
        /\ Cardinality(Majors') <= Cardinality(Majors) + 1
        /\ proc[p].level = 1 => Cardinality(Majors') <= Cardinality(Majors)
        /\ Cardinality(Warners') \in Nat /\ Cardinality(Majors') \in Nat
    BY <2>2, WarnTypes, Counting
  <2> QED
    BY <1>0, <2>1, <2>2, <2>3, WarnTypes DEF WarningInv, Due
<1>3. CASE ReportSum(p)
  <2>1. CASE Warnable(p) /\ ~Cancellable(p)
    <3>1. /\ p \in Majors /\ Majors' \subseteq Majors \ {p} /\ Warners' \subseteq Warners \cup {p}
          /\ warnings' = warnings /\ severity' = severity /\ severity < CancelAt
      BY <1>0, <1>3, <2>1 DEF ReportSum, Warnable, Majors, Warners, conduct
    <3>2. /\ Cardinality(Majors') <= Cardinality(Majors) - 1
          /\ Cardinality(Warners') <= Cardinality(Warners) + 1
          /\ Cardinality(Warners') \in Nat /\ Cardinality(Majors') \in Nat
      BY <3>1, WarnTypes, Counting
    <3> QED
      BY <3>1, <3>2, WarnTypes DEF WarningInv, Due
  <2>2. CASE ~Warnable(p) \/ Cancellable(p)
    <3>1. Unwarned
      BY <1>0, <1>3, <2>2 DEF ReportSum, Unwarned, Warners, Majors, conduct
    <3> QED
      BY <3>1, UnwarnedKeeps
  <2> QED
    BY <2>1, <2>2
<1>4. CASE CancelWrite(p) \/ PenaltyWrite(p)
  <2>1. Unwarned
    BY <1>0, <1>4 DEF CancelWrite, PenaltyWrite, Unwarned, Warners, Majors, conduct
  <2> QED
    BY <2>1, UnwarnedKeeps
<1>5. CASE WarnWrite(p)
  <2>1. /\ p \in Warners /\ Warners' \subseteq Warners \ {p} /\ Majors' \subseteq Majors
        /\ warnings' = warnings + 1 /\ severity' = severity
    BY <1>0, <1>5 DEF WarnWrite, Warners, Majors
  <2>2. /\ Cardinality(Warners') <= Cardinality(Warners) - 1
        /\ Cardinality(Majors') <= Cardinality(Majors)
        /\ Cardinality(Warners') \in Nat /\ Cardinality(Majors') \in Nat
    BY <2>1, WarnTypes, Counting
  <2> QED
    BY <2>1, <2>2, WarnTypes DEF WarningInv, Due
<1> QED
  BY <1>1, <1>2, <1>3, <1>4, <1>5 DEF ReportStep

LEMMA NextWarningInv == TypeOK /\ TypeOK' /\ WarningInv /\ [Next]_vars => WarningInv'
<1> SUFFICES ASSUME TypeOK, TypeOK', WarningInv, [Next]_vars PROVE WarningInv'
  OBVIOUS
<1>1. ASSUME NEW p \in Process, Step(p) PROVE WarningInv'
  BY <1>1, UnwarnedKeeps, StudentUnwarned, SubmitUnwarned, MonitorUnwarned, LecturerUnwarned,
     ReportWarnings DEF Step
<1>2. ASSUME NEW p \in Process, Fail(p) PROVE WarningInv'
  BY <1>2, UnwarnedKeeps, StudentUnwarned
<1>3. CASE Deadline \/ UNCHANGED vars
  BY <1>3 DEF Deadline, vars, WarningInv, Due, Warners, Majors, conduct
<1> QED
  BY <1>1, <1>2, <1>3 DEF Next

LEMMA InitWarningInv == Init => WarningInv
<1> SUFFICES ASSUME Init PROVE WarningInv
  OBVIOUS
<1>1. Warners = {} /\ Majors = {}
  BY DEF Init, Warners, Majors, Idle
<1> QED
  BY <1>1, SeverityAssumption, FS_EmptySet DEF Init, WarningInv, Due

(***************************************************************************)
(* reportEvent: however many reports overlap and read each other's events, *)
(* the warnings charged are fewer than half the severity that cancels the  *)
(* exam.                                                                   *)
(***************************************************************************)
THEOREM WarningsFitBudget == Spec => []WarningBudget
<1>1. TypeOK /\ WarningInv => WarningBudget
  <2> SUFFICES ASSUME TypeOK, WarningInv PROVE WarningBudget
    OBVIOUS
  <2> QED
    BY WarnTypes DEF WarningInv, Due, WarningBudget
<1> QED
  BY <1>1, InitTypeOK, NextTypeOK, InitWarningInv, NextWarningInv, PTL DEF Spec

\* Reports that came in while the session was open and may still charge for it.
Chargers == {p \in Process : \/ proc[p].pc \in {"log", "sum"} /\ proc[p].open
                             \/ proc[p].pc \in {"cancel", "penalty"}}

Cancelled == cancels > 0 \/ \E p \in Process : proc[p].pc = "penalty"

\* Once the exam is cancelled, no report becomes a charger any more.
CancelInv ==
  /\ cancels + Cardinality(Chargers) <= Cardinality(Process)
  /\ Cancelled => status # "IN_PROGRESS"

\* A step that charges for no cancellation.
Uncharged ==
  /\ cancels' = cancels /\ Chargers' \subseteq Chargers
  /\ Cancelled' => Cancelled
  /\ status # "IN_PROGRESS" => status' # "IN_PROGRESS"

LEMMA ChargeTypes ==
  ASSUME TypeOK
  PROVE  /\ Chargers \in SUBSET Process /\ Chargers' \in SUBSET Process /\ cancels \in Nat
         /\ Cardinality(Chargers) \in Nat /\ Cardinality(Chargers') \in Nat
         /\ Cardinality(Process) \in Nat
<1>1. Chargers \in SUBSET Process /\ Chargers' \in SUBSET Process /\ cancels \in Nat
  BY DEF Chargers, TypeOK
<1>2. IsFiniteSet(Chargers) /\ IsFiniteSet(Chargers')
  BY <1>1, HandlersAssumption, FS_Subset
<1> QED
  BY <1>1, <1>2, HandlersAssumption, FS_CardinalityType

LEMMA UnchargedKeeps ==
  ASSUME TypeOK, CancelInv, Uncharged, NEW p \in Process PROVE CancelInv'
<1>1. Cardinality(Chargers') <= Cardinality(Chargers)
  BY ChargeTypes, Counting DEF Uncharged
<1> QED
  BY <1>1, ChargeTypes DEF Uncharged, CancelInv

LEMMA StudentUncharged ==
  ASSUME TypeOK, NEW p \in Process, StudentStep(p) \/ JobStep(p) \/ Fail(p) PROVE Uncharged
<1> USE DEF Goto, End, Await, Idle
<1>0. proc \in [Process -> Local]
  BY DEF TypeOK
<1> QED
  BY <1>0 DEF StudentStep, JobStep, Fail, Uncharged, Chargers, Cancelled, SaveRead, SaveWrite,
              OpenRead, ExpireWrite, JobPick, JobRefused, conduct, result

LEMMA SubmitUncharged ==
  ASSUME TypeOK, NEW p \in Process, SubmitStep(p) \/ RewardStep(p) PROVE Uncharged
<1> USE DEF Goto, End, Await, Idle
<1>0. proc \in [Process -> Local]
  BY DEF TypeOK
<1>1. CASE SubmitRead(p)
  BY <1>0, <1>1 DEF Uncharged, Chargers, Cancelled, SubmitRead, conduct, result
<1>2. ASSUME NEW marks \in [Item -> 0..Worth], SubmitWrite(p, marks) PROVE Uncharged
  BY <1>0, <1>2 DEF Uncharged, Chargers, Cancelled, SubmitWrite, GradedState, conduct
<1>3. CASE SyncRead(p)
  BY <1>0, <1>3 DEF Uncharged, Chargers, Cancelled, SyncRead, conduct, result
<1>4. CASE AwardWrite(p)
  BY <1>0, <1>4 DEF Uncharged, Chargers, Cancelled, AwardWrite, conduct, result
<1> QED
  BY <1>1, <1>2, <1>3, <1>4 DEF SubmitStep, RewardStep

LEMMA MonitorUncharged == ASSUME TypeOK, NEW p \in Process, MonitorStep(p) PROVE Uncharged
<1> USE DEF Goto, End, Await, Idle
<1>0. proc \in [Process -> Local]
  BY DEF TypeOK
<1>1. ASSUME NEW label \in {"abort", "force", "extend"}, OpenRead(p, label) PROVE Uncharged
  BY <1>0, <1>1 DEF OpenRead, Uncharged, Chargers, Cancelled, conduct, result
<1>2. CASE AbortWrite(p)
  BY <1>0, <1>2 DEF AbortWrite, Uncharged, Chargers, Cancelled
<1>3. CASE ForceWrite(p) \/ ExtendWrite(p)
  BY <1>0, <1>3 DEF ForceWrite, ExtendWrite, Uncharged, Chargers, Cancelled, conduct, result
<1> QED
  BY <1>1, <1>2, <1>3 DEF MonitorStep

LEMMA LecturerUncharged == ASSUME TypeOK, NEW p \in Process, LecturerStep(p) PROVE Uncharged
<1> USE DEF Goto, End, Await, Idle
<1>0. proc \in [Process -> Local]
  BY DEF TypeOK
<1> QED
  BY <1>0 DEF LecturerStep, Uncharged, Chargers, Cancelled, GradeRead, RegradeRead, GradeTotal,
              GradeCommit, GradedState, PublishRead, PublishWrite, conduct, result

LEMMA ReportCharges ==
  ASSUME TypeOK, CancelInv, NEW p \in Process, ReportStep(p) PROVE CancelInv'
<1> USE DEF Goto, End, Await, Idle
<1>0. proc \in [Process -> Local]
  BY DEF TypeOK
<1>1. ASSUME NEW level \in 1..3, ReportRead(p, level) PROVE CancelInv'
  <2>1. UNCHANGED <<status, cancels>> /\ (Cancelled' => Cancelled)
    BY <1>0, <1>1 DEF ReportRead, Cancelled, conduct, result
  <2>2. CASE status = "IN_PROGRESS"
    <3>1. cancels = 0 /\ ~Cancelled'
      BY <2>1, <2>2, ChargeTypes DEF CancelInv, Cancelled
    <3>2. Cardinality(Chargers') <= Cardinality(Process)
      BY ChargeTypes, Counting
    <3> QED
      BY <2>1, <3>1, <3>2, ChargeTypes DEF CancelInv
  <2>3. CASE status # "IN_PROGRESS"
    <3>1. Uncharged
      BY <1>0, <1>1, <2>1, <2>3 DEF ReportRead, Uncharged, Chargers
    <3> QED
      BY <3>1, UnchargedKeeps
  <2> QED
    BY <2>2, <2>3
<1>2. CASE ReportLog(p) \/ WarnWrite(p)
  <2>1. Uncharged
    BY <1>0, <1>2 DEF ReportLog, WarnWrite, Uncharged, Chargers, Cancelled, result
  <2> QED
    BY <2>1, UnchargedKeeps
<1>3. CASE ReportSum(p)
  <2>1. Uncharged
    BY <1>0, <1>3 DEF ReportSum, Cancellable, Uncharged, Chargers, Cancelled, conduct, result
  <2> QED
    BY <2>1, UnchargedKeeps
<1>4. CASE CancelWrite(p)
  <2>1. Chargers' \subseteq Chargers /\ cancels' = cancels /\ status' = "SUBMITTED"
    BY <1>0, <1>4 DEF CancelWrite, Chargers, conduct
  <2>2. Cardinality(Chargers') <= Cardinality(Chargers)
    BY <2>1, ChargeTypes, Counting
  <2> QED
    BY <2>1, <2>2, ChargeTypes DEF CancelInv
<1>5. CASE PenaltyWrite(p)
  <2>1. /\ p \in Chargers /\ Chargers' \subseteq Chargers \ {p} /\ cancels' = cancels + 1
        /\ status' = status /\ Cancelled
    BY <1>0, <1>5 DEF PenaltyWrite, Chargers, Cancelled, result
  <2>2. Cardinality(Chargers') <= Cardinality(Chargers) - 1
    BY <2>1, ChargeTypes, Counting
  <2> QED
    BY <2>1, <2>2, ChargeTypes DEF CancelInv
<1> QED
  BY <1>1, <1>2, <1>3, <1>4, <1>5 DEF ReportStep

LEMMA NextCancelInv == TypeOK /\ CancelInv /\ [Next]_vars => CancelInv'
<1> SUFFICES ASSUME TypeOK, CancelInv, [Next]_vars PROVE CancelInv'
  OBVIOUS
<1>1. ASSUME NEW p \in Process, Step(p) PROVE CancelInv'
  BY <1>1, UnchargedKeeps, StudentUncharged, SubmitUncharged, MonitorUncharged,
     LecturerUncharged, ReportCharges DEF Step
<1>2. ASSUME NEW p \in Process, Fail(p) PROVE CancelInv'
  BY <1>2, UnchargedKeeps, StudentUncharged
<1>3. CASE Deadline \/ UNCHANGED vars
  BY <1>3 DEF Deadline, vars, CancelInv, Chargers, Cancelled, conduct, result
<1> QED
  BY <1>1, <1>2, <1>3 DEF Next

LEMMA InitCancelInv == Init => CancelInv
<1> SUFFICES ASSUME Init PROVE CancelInv
  OBVIOUS
<1>1. Chargers = {}
  BY DEF Init, Chargers, Idle
<1>2. Cardinality(Process) \in Nat
  BY HandlersAssumption, FS_CardinalityType
<1> QED
  BY <1>1, <1>2, FS_EmptySet DEF Init, CancelInv, Cancelled, Idle

(***************************************************************************)
(* reportEvent: the cancellation of an exam is charged at most once per    *)
(* handler that can be in flight, although nothing but a status read       *)
(* earlier keeps a second report from charging again.                      *)
(***************************************************************************)
THEOREM CancelledIsBounded == Spec => []CancelledAtMost
<1>1. TypeOK /\ CancelInv => CancelledAtMost
  <2> SUFFICES ASSUME TypeOK, CancelInv PROVE CancelledAtMost
    OBVIOUS
  <2> QED
    BY ChargeTypes DEF CancelInv, CancelledAtMost
<1> QED
  BY <1>1, InitTypeOK, NextTypeOK, InitCancelInv, NextCancelInv, PTL DEF Spec
=============================================================================
