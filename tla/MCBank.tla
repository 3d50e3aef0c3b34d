-------------------------------- MODULE MCBank --------------------------------
(***************************************************************************)
(* The modules about questions and exams together: the bank, the making of *)
(* exams, and the sessions a student starts.  They share no state, so a    *)
(* behaviour for TLC is one of one of them ("part"), with the others at    *)
(* rest.  Each part keeps within bounds of its own: exams drawn from a     *)
(* small bank of questions, or of problems; exams made by hand, updated    *)
(* and published by two requests; pretests on two days; exams of the list  *)
(* and of a pool; pretests started by two requests at a time.              *)
(***************************************************************************)
EXTENDS Integers, FiniteSets, TLC

CONSTANTS
  None, AsIs, Request,
  Subject, Topic, Question, MaxRows,                        \* of QuestionBank
  Paper, Drawable, Problem, Class, Rule, MaxDraw, MaxTime,  \* of ExamMaking
  Threshold, Setting,
  Official, Practice, Configuration, MaxSessions, MaxDay    \* of ExamAttempts

VARIABLES
  part,
  subjects, topics, questions, reviews, bankProc, moved,
  bank, problems, exams, proc, now,
  config, open, booking, rows, day, startProc, beyond

Q == INSTANCE QuestionBank WITH Process <- Request, proc <- bankProc
M == INSTANCE ExamMaking WITH Exam <- Paper, Question <- Drawable, Keep <- AsIs, Process <- Request
S == INSTANCE ExamAttempts WITH Process <- Request, proc <- startProc

ASSUME BankAssumption == Q!ConstantsAssumption
ASSUME MakingAssumption == M!ConstantsAssumption
ASSUME StartsAssumption == S!ConstantsAssumption

ofBank == <<subjects, topics, questions, reviews, bankProc, moved>>
ofMaking == <<bank, problems, exams, proc, now>>
ofStarts == <<config, open, booking, rows, day, startProc, beyond>>
vars == <<part, ofBank, ofMaking, ofStarts>>

-----------------------------------------------------------------------------
(* Values for the constants *)

AnyClass == CHOOSE c \in Class : TRUE

\* Two rules that compete for the questions of a class.
TwoRules == {[from |-> from, other |-> Class, count |-> 1] : from \in {{AnyClass}, Class}}

AnySetting == [visibility : {AsIs, "PRIVATE", "PUBLIC"}, at : {1, None, AsIs}, asNow : BOOLEAN]

\* One pretest a day, of the bank or of a pool.
OnePretest == {[max |-> 1, lock |-> TRUE, pool |-> pool] : pool \in {{}, Official}}

-----------------------------------------------------------------------------
(* What each part keeps within *)

OneAtATime(procs) ==
  \A p, q \in Request : procs[p].pc # "idle" /\ procs[q].pc # "idle" => p = q

\* An exam is drawn, and neither updated nor published.
Drawn ==
  /\ OneAtATime(proc) /\ now = 0
  /\ (\E e \in Paper : exams[e] # None) => \A p \in Request : proc[p].pc = "idle"
  /\ \A e \in Paper : exams[e] # None => exams[e].publication = M!Private /\ exams[e].threshold = None
Orders == {proc[p].order : p \in {p \in Request : proc[p].pc \in {"count", "rules", "problems"}}}

DrawnOfQuestions ==
  /\ Drawn
  /\ \A b \in Problem : problems[b] = "hidden"
  /\ \A order \in Orders : order.problems = 0
DrawnOfProblems ==
  /\ Drawn
  /\ \A q \in Drawable : bank[q] = "hidden"
  /\ \A order \in Orders : order.want = M!Empty /\ order.rules = {}

\* Exams are made of one question by hand.
Published ==
  /\ \A p \in Request : proc[p].pc \in {"idle", "create", "update", "remove"}
  /\ \A q \in Drawable : bank[q] \in {AnyClass, "hidden", "gone"}
  /\ Cardinality({q \in Drawable : bank[q] # "hidden"}) <= 1
  /\ \A b \in Problem : problems[b] = "hidden"

Pooled(pooled) ==
  \A c \in {config} \cup {startProc[p].config : p \in {p \in Request :
             startProc[p].pc \in {"saveConfig", "find", "count", "expire", "assign", "insertPretest"}}} :
    c # None => (c.pool # {}) = pooled
NoList ==
  /\ Pooled(FALSE) /\ open = S!Exam
  /\ \A p \in Request : startProc[p].pc \notin {"linked", "latest", "insert", "end"}

\* A third session is of an official exam again.
ThirdOfOfficial ==
  Cardinality(DOMAIN rows) > 2 =>
    \A i \in DOMAIN rows : rows[i].exam \in Official /\ ~rows[i].pretest /\ ~rows[i].published

Within ==
  /\ part = "draw" => DrawnOfQuestions
  /\ part = "draw problems" => DrawnOfProblems
  /\ part = "publish" => Published
  /\ part = "days" => NoList /\ OneAtATime(startProc)
  /\ part = "listed" => Pooled(TRUE) /\ ThirdOfOfficial /\ OneAtATime(startProc) /\ day = 0
  /\ part = "racing" => NoList /\ day = 0

Making == {"draw", "draw problems", "publish"}
Starts == {"days", "listed", "racing"}

Init ==
  /\ part \in {"bank"} \cup Making \cup Starts
  /\ Q!Init /\ M!Init /\ S!Init
  /\ part \notin Making => \A q \in Drawable : bank[q] = "hidden"
  /\ part \notin Making => \A b \in Problem : problems[b] = "hidden"
  /\ Within

Next ==
  \/ part = "bank" /\ Q!Next /\ UNCHANGED <<part, ofMaking, ofStarts>> /\ Within'
  \/ part \in Making /\ M!Next /\ UNCHANGED <<part, ofBank, ofStarts>> /\ Within'
  \/ part \in Starts /\ S!Next /\ UNCHANGED <<part, ofBank, ofMaking>> /\ Within'

Spec == Init /\ [][Next]_vars

Symmetry == Permutations(Drawable) \cup Permutations(Request)

-----------------------------------------------------------------------------
(* What each module states, as the invariants of one run. *)

(* The types of the three modules. *)
TypeOK == Q!TypeOK /\ M!TypeOK /\ S!TypeOK

(* QuestionBank: what questions, topics and reviews refer to exists and, but *)
(* for updates with a subject alone, topics fit subjects.                    *)
BankIsConsistent == Q!BankIsConsistent

(* ExamMaking: an exam has what its counts say, a STRICT one what was asked for. *)
DrawsAreExact == M!DrawsAreExact

(* ExamMaking: updates that race leave a threshold within the points. *)
ThresholdIsWithin == M!ThresholdIsWithin

(* ExamMaking: isPublished agrees with visibility and publishAt. *)
FlagIsTrue == M!FlagIsTrue

(* ExamAttempts: maxAttempts a day and none after a published pass, but for *)
(* requests under way.                                                      *)
PretestsAreLimited == S!PretestsAreLimited

(* ExamAttempts: an official exam is taken from the list once. *)
OfficialExamsOnce == S!OfficialExamsOnce
=============================================================================
