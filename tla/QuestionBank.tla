----------------------------- MODULE QuestionBank -----------------------------
(***************************************************************************)
(* Subjects, their topics, the questions and the reviews of a quarter      *)
(* (src/questions).                                                        *)
(*                                                                         *)
(* Every operation looks up what it refers to and writes later.  What may  *)
(* not happen then is left to the foreign keys: a subject with questions   *)
(* is not deleted, its topics go with it, and a question whose topic goes  *)
(* keeps its subject.                                                      *)
(*                                                                         *)
(* Subjects, topics and questions are their ids; names, which are unique,  *)
(* choices, owners and texts are left out, and so are the updates that     *)
(* change nothing else.  An import finds the ids for the names in a row    *)
(* and then does for it what create does; rows follow one another.         *)
(***************************************************************************)
EXTENDS Integers, FiniteSets

CONSTANTS
  Subject, Topic, Question,  \* ids; one is not given again while a request has it
  None,                      \* null
  Process,                   \* requests handled at the same time
  MaxRows                    \* bound: rows of a file to import

\* What the constants are; the instances assume it.
ConstantsAssumption ==
  /\ None \notin Subject \cup Topic \cup Question
  /\ MaxRows \in Nat /\ IsFiniteSet(Process)

VARIABLES
  subjects,   \* the Subject rows
  topics,     \* Topic.subjectId, None where there is no such topic
  questions,  \* the Question rows
  reviews,    \* the status of the review of each question, None without one
  proc,       \* where each process is and what it has read
  moved       \* history: questions that have been updated with a subject

tables == <<subjects, topics, questions, reviews>>
vars == <<tables, proc, moved>>

Status == {"PENDING", "APPROVED", "NEEDS_REVISION", "RESUBMITTED"}
NoQuestion == [subject |-> None, topic |-> None, published |-> FALSE]
Idle == [pc |-> "idle"]

Row == [subject : Subject \cup {None}, topic : Topic \cup {None}, published : BOOLEAN]

\* The fields an update sets; "keep" leaves one alone.
Keep == "keep"
Change == [subject : Subject \cup {Keep}, topic : Topic \cup {None, Keep}]

Local ==
  {Idle}
  \cup [pc : {"deleteSubject", "createTopic"}, subject : Subject]
  \cup [pc : {"deleteTopic"}, topic : Topic]
  \cup [pc : {"create"}, row : Row, rows : 0..MaxRows]
  \cup [pc : {"import"}, rows : 0..MaxRows]
  \cup [pc : {"update"}, question : Question, change : Change]
  \cup [pc : {"toggle"}, question : Question, published : BOOLEAN]
  \cup [pc : {"remove", "resubmit"}, question : Question]
  \cup [pc : {"generate"}, found : SUBSET Question]

TypeOK ==
  /\ subjects \subseteq Subject
  /\ topics \in [Topic -> Subject \cup {None}]
  /\ questions \in [Question -> Row]
  /\ reviews \in [Question -> Status \cup {None}]
  /\ proc \in [Process -> Local]
  /\ moved \subseteq Question

Init ==
  /\ subjects = {}
  /\ topics = [t \in Topic |-> None]
  /\ questions = [q \in Question |-> NoQuestion]
  /\ reviews = [q \in Question |-> None]
  /\ proc = [p \in Process |-> Idle]
  /\ moved = {}

Goto(p, next) == proc' = [proc EXCEPT ![p] = next]
End(p) == Goto(p, Idle)
Start(p, next) == proc[p].pc = "idle" /\ Goto(p, next) /\ UNCHANGED <<tables, moved>>

Exists(q) == questions[q] # NoQuestion
Existing == {q \in Question : Exists(q)}
Using(s) == {q \in Existing : questions[q].subject = s}

\* What the foreign keys of a question ask for.
KeysHold(row) ==
  /\ row.subject \in subjects
  /\ row.topic = None \/ row.topic \in {t \in Topic : topics[t] # None}

\* Requests that hold the id of a subject, a topic or a question.
HasSubject(s) == \E p \in Process :
  \/ proc[p].pc \in {"deleteSubject", "createTopic"} /\ proc[p].subject = s
  \/ proc[p].pc = "create" /\ proc[p].row.subject = s
  \/ proc[p].pc = "update" /\ proc[p].change.subject = s
HasTopic(t) == \E p \in Process :
  \/ proc[p].pc = "deleteTopic" /\ proc[p].topic = t
  \/ proc[p].pc = "create" /\ proc[p].row.topic = t
  \/ proc[p].pc = "update" /\ proc[p].change.topic = t
HasQuestion(q) == \E p \in Process :
  \/ proc[p].pc \in {"update", "toggle", "remove", "resubmit"} /\ proc[p].question = q
  \/ proc[p].pc = "generate" /\ q \in proc[p].found

-----------------------------------------------------------------------------
(* Subjects and topics *)

CreateSubject(s) ==
  /\ s \notin subjects /\ ~HasSubject(s)
  /\ subjects' = subjects \cup {s}
  /\ UNCHANGED <<topics, questions, reviews, proc, moved>>

DeleteSubjectRead(p, s) ==
  /\ s \in subjects /\ Using(s) = {}
  /\ Start(p, [pc |-> "deleteSubject", subject |-> s])

\* Mutant of MayDeleteSubject: the count read before is relied upon.
MayDeleteAnySubject(s) == s \in subjects

\* Question.subjectId restricts the deletion.
MayDeleteSubject(s) == s \in subjects /\ Using(s) = {}

\* Topic.subjectId cascades, Question.topicId is set to null.
DropTopics(gone) ==
  /\ topics' = [t \in Topic |-> IF t \in gone THEN None ELSE topics[t]]
  /\ questions' = [q \in Question |->
       IF questions[q].topic \in gone THEN [questions[q] EXCEPT !.topic = None]
       ELSE questions[q]]

DeleteSubjectWrite(p) ==
  LET s == proc[p].subject IN
  /\ proc[p].pc = "deleteSubject"
  /\ End(p)
  /\ IF MayDeleteSubject(s)
       THEN subjects' = subjects \ {s} /\ DropTopics({t \in Topic : topics[t] = s})
       ELSE UNCHANGED <<subjects, topics, questions>>
  /\ UNCHANGED <<reviews, moved>>

CreateTopicRead(p, s) == s \in subjects /\ Start(p, [pc |-> "createTopic", subject |-> s])

CreateTopicWrite(p, t) ==
  /\ proc[p].pc = "createTopic"
  /\ topics[t] = None /\ ~HasTopic(t)
  /\ End(p)
  /\ topics' = IF proc[p].subject \in subjects
                 THEN [topics EXCEPT ![t] = proc[p].subject] ELSE topics
  /\ UNCHANGED <<subjects, questions, reviews, moved>>

DeleteTopicRead(p, t) ==
  /\ topics[t] # None /\ \A q \in Existing : questions[q].topic # t
  /\ Start(p, [pc |-> "deleteTopic", topic |-> t])

DeleteTopicWrite(p) ==
  /\ proc[p].pc = "deleteTopic"
  /\ End(p)
  /\ DropTopics({proc[p].topic})
  /\ UNCHANGED <<subjects, reviews, moved>>

-----------------------------------------------------------------------------
(* Questions *)

\* Mutant of Fits: the topic is only looked up.
FitsAnything(t, s) == IF t = None THEN TRUE ELSE topics[t] # None

\* A topic has to belong to the subject.
Fits(t, s) == IF t = None THEN TRUE ELSE topics[t] = s

CreateRead(p, row) ==
  /\ row.subject \in subjects /\ Fits(row.topic, row.subject)
  /\ Start(p, [pc |-> "create", row |-> row, rows |-> 0])

\* The next row of a file: its subject is found, its topic or else none.
ImportBegin(p) == \E n \in 1..MaxRows : Start(p, [pc |-> "import", rows |-> n])

ImportRow(p, row) ==
  /\ proc[p].pc = "import" /\ proc[p].rows > 0
  /\ row.subject \in subjects /\ Fits(row.topic, row.subject)
  /\ Goto(p, [pc |-> "create", row |-> row, rows |-> proc[p].rows - 1])
  /\ UNCHANGED <<tables, moved>>

\* A row that refers to nothing, or lacks something, is skipped.
ImportSkip(p) ==
  /\ proc[p].pc = "import"
  /\ IF proc[p].rows = 0 THEN End(p) ELSE Goto(p, [proc[p] EXCEPT !.rows = @ - 1])
  /\ UNCHANGED <<tables, moved>>

\* The foreign keys reject a subject or a topic that has gone.
CreateWrite(p, q) ==
  LET row == proc[p].row IN
  /\ proc[p].pc = "create"
  /\ ~Exists(q) /\ ~HasQuestion(q)
  /\ Goto(p, IF proc[p].rows = 0 THEN Idle ELSE [pc |-> "import", rows |-> proc[p].rows])
  /\ questions' = IF KeysHold(row) THEN [questions EXCEPT ![q] = row] ELSE questions
  /\ UNCHANGED <<subjects, topics, reviews, moved>>

\* The topic is compared with the subject to come; a subject that comes alone
\* is compared with nothing.
UpdateRead(p, q, change) ==
  /\ Exists(q)
  /\ change.subject = Keep \/ change.subject \in subjects
  /\ IF change.topic = Keep THEN TRUE
     ELSE Fits(change.topic,
               IF change.subject = Keep THEN questions[q].subject ELSE change.subject)
  /\ Start(p, [pc |-> "update", question |-> q, change |-> change])

UpdateWrite(p) ==
  LET q == proc[p].question
      change == proc[p].change
      new == [questions[q] EXCEPT !.subject = IF change.subject = Keep THEN @ ELSE change.subject,
                                  !.topic = IF change.topic = Keep THEN @ ELSE change.topic]
  IN
  /\ proc[p].pc = "update"
  /\ End(p)
  /\ IF Exists(q) /\ KeysHold(new)
       THEN /\ questions' = [questions EXCEPT ![q] = new]
            /\ moved' = IF change.subject = Keep THEN moved ELSE moved \cup {q}
       ELSE UNCHANGED <<questions, moved>>
  /\ UNCHANGED <<subjects, topics, reviews>>

ToggleRead(p, q) ==
  /\ Exists(q)
  /\ Start(p, [pc |-> "toggle", question |-> q, published |-> questions[q].published])

\* isPublished is set to the contrary of what was read.
ToggleWrite(p) ==
  LET q == proc[p].question IN
  /\ proc[p].pc = "toggle"
  /\ End(p)
  /\ questions' = IF Exists(q) THEN [questions EXCEPT ![q].published = ~proc[p].published]
                  ELSE questions
  /\ UNCHANGED <<subjects, topics, reviews, moved>>

RemoveRead(p, q) == Exists(q) /\ Start(p, [pc |-> "remove", question |-> q])

\* The review goes with the question.
RemoveWrite(p) ==
  LET q == proc[p].question IN
  /\ proc[p].pc = "remove"
  /\ End(p)
  /\ questions' = [questions EXCEPT ![q] = NoQuestion]
  /\ reviews' = [reviews EXCEPT ![q] = None]
  /\ moved' = moved \ {q}
  /\ UNCHANGED <<subjects, topics>>

-----------------------------------------------------------------------------
(* Reviews: createQuarterlySessions, submitReview, resubmitForReview *)

GenerateRead(p) ==
  LET found == {q \in Existing : questions[q].published} IN
  found # {} /\ Start(p, [pc |-> "generate", found |-> found])

\* One statement: all of it, or nothing when a question has gone meanwhile.
GenerateWrite(p) ==
  LET made == {q \in proc[p].found : reviews[q] = None} IN
  /\ proc[p].pc = "generate"
  /\ End(p)
  /\ reviews' = IF proc[p].found \subseteq Existing
                  THEN [q \in Question |-> IF q \in made THEN "PENDING" ELSE reviews[q]]
                  ELSE reviews
  /\ UNCHANGED <<subjects, topics, questions, moved>>

\* Any verdict may follow any other.
SubmitReview(q, verdict) ==
  /\ reviews[q] # None
  /\ verdict \in {"APPROVED", "NEEDS_REVISION"}
  /\ reviews' = [reviews EXCEPT ![q] = verdict]
  /\ UNCHANGED <<subjects, topics, questions, proc, moved>>

ResubmitRead(p, q) ==
  reviews[q] = "NEEDS_REVISION" /\ Start(p, [pc |-> "resubmit", question |-> q])

ResubmitWrite(p) ==
  LET q == proc[p].question IN
  /\ proc[p].pc = "resubmit"
  /\ End(p)
  /\ reviews' = IF reviews[q] = None THEN reviews ELSE [reviews EXCEPT ![q] = "RESUBMITTED"]
  /\ UNCHANGED <<subjects, topics, questions, moved>>

-----------------------------------------------------------------------------
\* A call the process awaits is rejected, or the server restarts.
Fail(p) == proc[p].pc # "idle" /\ End(p) /\ UNCHANGED <<tables, moved>>

Step(p) ==
  \/ \E s \in Subject : DeleteSubjectRead(p, s) \/ CreateTopicRead(p, s)
  \/ \E t \in Topic : CreateTopicWrite(p, t) \/ DeleteTopicRead(p, t)
  \/ DeleteSubjectWrite(p) \/ DeleteTopicWrite(p)
  \/ \E row \in Row : CreateRead(p, row) \/ ImportRow(p, row)
  \/ ImportBegin(p) \/ ImportSkip(p)
  \/ \E q \in Question :
       \/ CreateWrite(p, q) \/ ToggleRead(p, q) \/ RemoveRead(p, q) \/ ResubmitRead(p, q)
       \/ \E change \in Change : UpdateRead(p, q, change)
  \/ UpdateWrite(p) \/ ToggleWrite(p) \/ RemoveWrite(p) \/ ResubmitWrite(p)
  \/ GenerateRead(p) \/ GenerateWrite(p)
  \/ Fail(p)

Next ==
  \/ \E p \in Process : Step(p)
  \/ \E s \in Subject : CreateSubject(s)
  \/ \E q \in Question, verdict \in Status : SubmitReview(q, verdict)

Spec == Init /\ [][Next]_vars

-----------------------------------------------------------------------------
(* Properties *)

Fitting == {q \in Existing : questions[q].topic = None
                              \/ topics[questions[q].topic] = questions[q].subject}

(***************************************************************************)
(* Deletions count what uses a row and delete it later.  Whatever is made, *)
(* imported, moved, reviewed or deleted meanwhile, a question keeps a      *)
(* subject that exists, the topic of a question and the subject of a topic *)
(* exist, and only a question has a review.  Its topic belongs to its      *)
(* subject ("Chu de khong thuoc mon hoc da chon"), unless an update        *)
(* brought a subject without a topic, the one thing that breaks this: no   *)
(* row of an import, though resolved before, and no deletion does.         *)
(***************************************************************************)
BankIsConsistent ==
  /\ \A q \in Question : IF Exists(q) THEN KeysHold(questions[q]) ELSE reviews[q] = None
  /\ \A t \in Topic : topics[t] # None => topics[t] \in subjects
  /\ Existing \ moved \subseteq Fitting
=============================================================================
