------------------------------ MODULE BankProofs ------------------------------
(***************************************************************************)
(* Proofs about QuestionBank and ExamAttempts, as MCBank has them, for     *)
(* every number of requests, rows, sessions and days.                      *)
(***************************************************************************)
EXTENDS MCBank, FiniteSetTheorems, TLAPS

-----------------------------------------------------------------------------
(* QuestionBank: what requests have looked up                               *)

\* What a request found to fit does so still, unless it has gone.
Resolved(x) ==
  /\ x.pc = "create" /\ x.row.topic # None => topics[x.row.topic] \in {None, x.row.subject}
  /\ x.pc = "update" /\ Q!Exists(x.question) /\ x.question \notin moved
       /\ x.change.topic \notin {None, Q!Keep} =>
     topics[x.change.topic] \in
       {None, IF x.change.subject = Q!Keep THEN questions[x.question].subject ELSE x.change.subject}

BankInv == Q!TypeOK /\ Q!BankIsConsistent /\ \A p \in Request : Resolved(bankProc[p])

\* What a request holds goes with where it is.
LEMMA BankLocals ==
  ASSUME NEW x \in Q!Local
  PROVE  /\ x.pc \in {"deleteSubject", "createTopic"} => x.subject \in Subject
         /\ x.pc = "deleteTopic" => x.topic \in Topic
         /\ x.pc = "create" => x.row \in Q!Row /\ x.rows \in 0..MaxRows
         /\ x.pc = "import" => x.rows \in 0..MaxRows
         /\ x.pc = "update" => x.question \in Question /\ x.change \in Q!Change
         /\ x.pc = "toggle" => x.question \in Question /\ x.published \in BOOLEAN
         /\ x.pc \in {"remove", "resubmit"} => x.question \in Question
         /\ x.pc = "generate" => x.found \subseteq Question
<1>1. x.pc \in {"deleteSubject", "createTopic"} => x.subject \in Subject
  BY DEF Q!Local, Q!Idle
<1>2. x.pc = "deleteTopic" => x.topic \in Topic
  BY DEF Q!Local, Q!Idle
<1>3. x.pc = "create" => x.row \in Q!Row /\ x.rows \in 0..MaxRows
  BY DEF Q!Local, Q!Idle
<1>4. x.pc = "import" => x.rows \in 0..MaxRows
  BY DEF Q!Local, Q!Idle
<1>5. x.pc = "update" => x.question \in Question /\ x.change \in Q!Change
  BY DEF Q!Local, Q!Idle
<1>6. x.pc = "toggle" => x.question \in Question /\ x.published \in BOOLEAN
  BY DEF Q!Local, Q!Idle
<1>7. x.pc \in {"remove", "resubmit"} => x.question \in Question
  BY DEF Q!Local, Q!Idle
<1>8. x.pc = "generate" => x.found \subseteq Question
  BY DEF Q!Local, Q!Idle
<1> QED
  BY <1>1, <1>2, <1>3, <1>4, <1>5, <1>6, <1>7, <1>8

LEMMA BankIdle == Q!Idle \in Q!Local /\ Q!Idle.pc = "idle" /\ Resolved(Q!Idle) /\ Resolved(Q!Idle)'
  BY DEF Q!Local, Q!Idle, Resolved

\* A request goes on, and what the others have found stands.
LEMMA BankMoves ==
  ASSUME BankInv, NEW p \in Request, NEW next \in Q!Local, Q!Goto(p, next), Resolved(next)',
         \A q \in Request, x \in Q!Local :
           q # p /\ x = bankProc[q] /\ Resolved(x) => Resolved(x)'
  PROVE  bankProc' \in [Request -> Q!Local] /\ (\A q \in Request : Resolved(bankProc[q]))'
<1>1. /\ bankProc' \in [Request -> Q!Local] /\ bankProc'[p] = next
      /\ \A q \in Request : q # p => bankProc'[q] = bankProc[q]
  BY DEF BankInv, Q!TypeOK, Q!Goto
<1>2. ASSUME NEW q \in Request PROVE Resolved(bankProc[q])'
  <2>1. CASE q = p
    <3>1. bankProc'[q] = next
      BY <1>1, <2>1
    <3> QED
      BY <3>1 DEF Resolved, Q!Exists
  <2>2. CASE q # p
    <3>1. PICK x \in Q!Local : x = bankProc[q]
      BY DEF BankInv, Q!TypeOK
    <3>2. Resolved(x)
      BY <3>1, Zenon DEF BankInv
    <3>3. Resolved(x)' /\ bankProc'[q] = x
      BY <1>1, <2>2, <3>1, <3>2
    <3> QED
      BY <3>3 DEF Resolved, Q!Exists
  <2> QED
    BY <2>1, <2>2
<1> QED
  BY <1>1, <1>2

\* ... when the tables stay as they are.
LEMMA BankStarts ==
  ASSUME BankInv, NEW p \in Request, NEW next \in Q!Local, Q!Goto(p, next), Resolved(next),
         UNCHANGED <<Q!tables, moved>>
  PROVE  BankInv'
<1>1. \A x : Resolved(x)' <=> Resolved(x)
  BY DEF Resolved, Q!tables, Q!Exists
<1>2. bankProc' \in [Request -> Q!Local] /\ (\A q \in Request : Resolved(bankProc[q]))'
  BY <1>1, BankMoves
<1>3. Q!BankIsConsistent'
  BY DEF BankInv, Q!tables, Q!BankIsConsistent, Q!Exists, Q!Existing, Q!Fitting, Q!KeysHold
<1>4. Q!TypeOK'
  BY <1>2 DEF BankInv, Q!TypeOK, Q!tables
<1> QED
  BY <1>2, <1>3, <1>4 DEF BankInv

LEMMA BankBegins ==
  ASSUME BankInv, NEW p \in Request,
         \/ \E s \in Subject : Q!DeleteSubjectRead(p, s) \/ Q!CreateTopicRead(p, s)
         \/ \E t \in Topic : Q!DeleteTopicRead(p, t)
         \/ Q!ImportBegin(p)
         \/ \E q \in Question : Q!ToggleRead(p, q) \/ Q!RemoveRead(p, q) \/ Q!ResubmitRead(p, q)
         \/ Q!GenerateRead(p) \/ Q!Fail(p)
  PROVE  BankInv'
<1> SUFFICES \E next \in Q!Local : /\ Q!Goto(p, next) /\ Resolved(next)
                                   /\ UNCHANGED <<Q!tables, moved>>
  BY BankStarts
<1>1. ASSUME NEW s \in Subject, Q!DeleteSubjectRead(p, s) \/ Q!CreateTopicRead(p, s)
      PROVE  \E next \in Q!Local : /\ Q!Goto(p, next) /\ Resolved(next)
                                   /\ UNCHANGED <<Q!tables, moved>>
  <2> DEFINE D == [pc |-> "deleteSubject", subject |-> s]
             C == [pc |-> "createTopic", subject |-> s]
  <2>1. D \in Q!Local /\ C \in Q!Local /\ Resolved(D) /\ Resolved(C)
    BY DEF Q!Local, Resolved
  <2> QED
    BY <1>1, <2>1 DEF Q!DeleteSubjectRead, Q!CreateTopicRead, Q!Start
<1>2. ASSUME NEW t \in Topic, Q!DeleteTopicRead(p, t)
      PROVE  \E next \in Q!Local : /\ Q!Goto(p, next) /\ Resolved(next)
                                   /\ UNCHANGED <<Q!tables, moved>>
  <2> DEFINE D == [pc |-> "deleteTopic", topic |-> t]
  <2>1. D \in Q!Local /\ Resolved(D)
    BY DEF Q!Local, Resolved
  <2> QED
    BY <1>2, <2>1 DEF Q!DeleteTopicRead, Q!Start
<1>3. ASSUME Q!ImportBegin(p)
      PROVE  \E next \in Q!Local : /\ Q!Goto(p, next) /\ Resolved(next)
                                   /\ UNCHANGED <<Q!tables, moved>>
  <2>1. PICK n \in 1..MaxRows : Q!Start(p, [pc |-> "import", rows |-> n])
    BY <1>3 DEF Q!ImportBegin
  <2>2. n \in 0..MaxRows
    BY BankAssumption DEF Q!ConstantsAssumption
  <2> DEFINE N == [pc |-> "import", rows |-> n]
  <2>3. N \in Q!Local /\ Resolved(N)
    BY <2>2 DEF Q!Local, Resolved
  <2> QED
    BY <2>1, <2>3 DEF Q!Start
<1>4. ASSUME NEW q \in Question, Q!ToggleRead(p, q) \/ Q!RemoveRead(p, q) \/ Q!ResubmitRead(p, q)
      PROVE  \E next \in Q!Local : /\ Q!Goto(p, next) /\ Resolved(next)
                                   /\ UNCHANGED <<Q!tables, moved>>
  <2> DEFINE T == [pc |-> "toggle", question |-> q, published |-> questions[q].published]
             R == [pc |-> "remove", question |-> q]
             D == [pc |-> "resubmit", question |-> q]
  <2>1. questions[q].published \in BOOLEAN
    BY DEF BankInv, Q!TypeOK, Q!Row
  <2>2. T \in Q!Local /\ R \in Q!Local /\ D \in Q!Local
    BY <2>1 DEF Q!Local
  <2>3. Resolved(T) /\ Resolved(R) /\ Resolved(D)
    BY DEF Resolved
  <2> QED
    BY <1>4, <2>2, <2>3 DEF Q!ToggleRead, Q!RemoveRead, Q!ResubmitRead, Q!Start
<1>5. ASSUME Q!GenerateRead(p)
      PROVE  \E next \in Q!Local : /\ Q!Goto(p, next) /\ Resolved(next)
                                   /\ UNCHANGED <<Q!tables, moved>>
  <2> DEFINE found == {q \in Q!Existing : questions[q].published}
             G == [pc |-> "generate", found |-> found]
  <2>1. found \subseteq Question
    BY DEF Q!Existing
  <2>2. G \in Q!Local /\ Resolved(G)
    BY <2>1 DEF Q!Local, Resolved
  <2> QED
    BY <1>5, <2>2 DEF Q!GenerateRead, Q!Start
<1>6. ASSUME Q!Fail(p)
      PROVE  \E next \in Q!Local : /\ Q!Goto(p, next) /\ Resolved(next)
                                   /\ UNCHANGED <<Q!tables, moved>>
  BY <1>6, BankIdle DEF Q!Fail, Q!End
<1> QED
  BY <1>1, <1>2, <1>3, <1>4, <1>5, <1>6

\* A row to be created, an update to be made: what is looked up fits.
LEMMA BankLooksUp ==
  ASSUME BankInv, NEW p \in Request,
         \/ \E row \in Q!Row : Q!CreateRead(p, row) \/ Q!ImportRow(p, row)
         \/ Q!ImportSkip(p)
         \/ \E q \in Question, change \in Q!Change : Q!UpdateRead(p, q, change)
  PROVE  BankInv'
<1> SUFFICES \E next \in Q!Local : /\ Q!Goto(p, next) /\ Resolved(next)
                                   /\ UNCHANGED <<Q!tables, moved>>
  BY BankStarts
<1>1. ASSUME NEW row \in Q!Row, Q!CreateRead(p, row) \/ Q!ImportRow(p, row)
      PROVE  \E next \in Q!Local : /\ Q!Goto(p, next) /\ Resolved(next)
                                   /\ UNCHANGED <<Q!tables, moved>>
  <2>1. PICK n \in 0..MaxRows : /\ Q!Goto(p, [pc |-> "create", row |-> row, rows |-> n])
                                /\ UNCHANGED <<Q!tables, moved>>
    <3>1. CASE Q!CreateRead(p, row)
      <4>1. 0 \in 0..MaxRows
        BY BankAssumption DEF Q!ConstantsAssumption
      <4> QED
        BY <3>1, <4>1 DEF Q!CreateRead, Q!Start
    <3>2. CASE Q!ImportRow(p, row)
      <4>1. bankProc[p].rows \in 0..MaxRows /\ bankProc[p].rows > 0
        BY <3>2, BankLocals DEF Q!ImportRow, BankInv, Q!TypeOK
      <4>2. bankProc[p].rows - 1 \in 0..MaxRows
        BY <4>1, BankAssumption DEF Q!ConstantsAssumption
      <4> QED
        BY <3>2, <4>2 DEF Q!ImportRow
    <3> QED
      BY <1>1, <3>1, <3>2
  <2> DEFINE C == [pc |-> "create", row |-> row, rows |-> n]
  <2>2. Q!Fits(row.topic, row.subject)
    BY <1>1 DEF Q!CreateRead, Q!ImportRow
  <2>3. C \in Q!Local
    BY DEF Q!Local
  <2>4. Resolved(C)
    BY <2>2 DEF Resolved, Q!Fits
  <2> QED
    BY <2>1, <2>3, <2>4
<1>2. ASSUME Q!ImportSkip(p)
      PROVE  \E next \in Q!Local : /\ Q!Goto(p, next) /\ Resolved(next)
                                   /\ UNCHANGED <<Q!tables, moved>>
  <2> DEFINE n == bankProc[p].rows
             I == [bankProc[p] EXCEPT !.rows = @ - 1]
  <2>1. bankProc[p] \in Q!Local /\ bankProc[p].pc = "import" /\ n \in 0..MaxRows
    BY <1>2, BankLocals DEF Q!ImportSkip, BankInv, Q!TypeOK
  <2>2. CASE n = 0
    BY <1>2, <2>2, BankIdle DEF Q!ImportSkip, Q!End
  <2>3. CASE n # 0
    <3>1. n - 1 \in 0..MaxRows
      BY <2>1, <2>3, BankAssumption DEF Q!ConstantsAssumption
    <3>2. bankProc[p] \in [pc : {"import"}, rows : 0..MaxRows]
      BY <2>1 DEF Q!Local, Q!Idle
    <3>3. I \in Q!Local /\ I.pc = "import"
      BY <3>1, <3>2 DEF Q!Local
    <3>4. Resolved(I)
      BY <3>3 DEF Resolved
    <3> QED
      BY <1>2, <2>3, <3>3, <3>4 DEF Q!ImportSkip
  <2> QED
    BY <2>2, <2>3
<1>3. ASSUME NEW q \in Question, NEW change \in Q!Change, Q!UpdateRead(p, q, change)
      PROVE  \E next \in Q!Local : /\ Q!Goto(p, next) /\ Resolved(next)
                                   /\ UNCHANGED <<Q!tables, moved>>
  <2> DEFINE U == [pc |-> "update", question |-> q, change |-> change]
  <2>1. U \in Q!Local
    BY DEF Q!Local
  <2>2. Resolved(U)
    BY <1>3 DEF Resolved, Q!UpdateRead, Q!Fits
  <2> QED
    BY <1>3, <2>1, <2>2 DEF Q!UpdateRead, Q!Start
<1> QED
  BY <1>1, <1>2, <1>3

LEMMA BankEnds ==
  ASSUME BankInv, NEW p \in Request, Q!End(p), Q!BankIsConsistent',
         subjects' \subseteq Subject, topics' \in [Topic -> Subject \cup {None}],
         questions' \in [Question -> Q!Row], reviews' \in [Question -> Q!Status \cup {None}],
         moved' \subseteq Question,
         \A q \in Request, x \in Q!Local :
           q # p /\ x = bankProc[q] /\ Resolved(x) => Resolved(x)'
  PROVE  BankInv'
<1>1. bankProc' \in [Request -> Q!Local] /\ (\A q \in Request : Resolved(bankProc[q]))'
  BY BankMoves, BankIdle DEF Q!End
<1> QED
  BY <1>1 DEF BankInv, Q!TypeOK

-----------------------------------------------------------------------------
(* QuestionBank: reviews *)

LEMMA ReviewsChange ==
  ASSUME BankInv, UNCHANGED <<subjects, topics, questions, moved>>,
         \A q \in Question : Q!Exists(q) \/ reviews'[q] = None
  PROVE  Q!BankIsConsistent' /\ \A x : Resolved(x) => Resolved(x)'
  BY DEF BankInv, Q!BankIsConsistent, Q!Exists, Q!Existing, Q!Fitting, Q!KeysHold, Resolved

LEMMA BankReviews ==
  ASSUME BankInv, NEW p \in Request, Q!GenerateWrite(p) \/ Q!ResubmitWrite(p)
  PROVE  BankInv'
<1>1. /\ Q!End(p) /\ UNCHANGED <<subjects, topics, questions, moved>>
  BY DEF Q!GenerateWrite, Q!ResubmitWrite
<1>2. bankProc[p] \in Q!Local
  BY DEF BankInv, Q!TypeOK
<1>3. /\ reviews' \in [Question -> Q!Status \cup {None}]
      /\ \A q \in Question : Q!Exists(q) \/ reviews'[q] = None
  <2>1. CASE Q!GenerateWrite(p)
    <3> DEFINE found == bankProc[p].found
    <3>1. CASE found \subseteq Q!Existing
      <4>1. /\ "PENDING" \in Q!Status
            /\ reviews' = [q \in Question |-> IF q \in {o \in found : reviews[o] = None}
                                                THEN "PENDING" ELSE reviews[q]]
        BY <2>1, <3>1 DEF Q!GenerateWrite, Q!Status
      <4> QED
        BY <3>1, <4>1 DEF BankInv, Q!TypeOK, Q!BankIsConsistent, Q!Existing
    <3>2. CASE ~(found \subseteq Q!Existing)
      <4>1. reviews' = reviews
        BY <2>1, <3>2 DEF Q!GenerateWrite
      <4> QED
        BY <4>1 DEF BankInv, Q!TypeOK, Q!BankIsConsistent
    <3> QED
      BY <3>1, <3>2
  <2>2. CASE Q!ResubmitWrite(p)
    BY <2>2 DEF Q!ResubmitWrite, BankInv, Q!TypeOK, Q!BankIsConsistent, Q!Status
  <2> QED
    BY <2>1, <2>2
<1>4. Q!BankIsConsistent' /\ \A x : Resolved(x) => Resolved(x)'
  BY <1>1, <1>3, ReviewsChange
<1> QED
  BY <1>1, <1>3, <1>4, BankEnds DEF BankInv, Q!TypeOK

LEMMA BankVerdicts ==
  ASSUME BankInv, NEW q \in Question, NEW verdict \in Q!Status, Q!SubmitReview(q, verdict)
  PROVE  BankInv'
<1>1. /\ reviews' \in [Question -> Q!Status \cup {None}]
      /\ UNCHANGED <<subjects, topics, questions, moved, bankProc>>
      /\ \A o \in Question : Q!Exists(o) \/ reviews'[o] = None
  BY DEF Q!SubmitReview, BankInv, Q!TypeOK, Q!BankIsConsistent
<1>2. Q!BankIsConsistent' /\ \A x : Resolved(x) => Resolved(x)'
  BY <1>1, ReviewsChange
<1>3. (\A o \in Request : Resolved(bankProc[o]))'
  BY <1>1, <1>2 DEF BankInv, Resolved, Q!Exists
<1> QED
  BY <1>1, <1>2, <1>3 DEF BankInv, Q!TypeOK

-----------------------------------------------------------------------------
(* QuestionBank: subjects and topics *)

\* No question and no request has a topic that is not there.
LEMMA TopicsCome ==
  ASSUME BankInv, NEW t \in Topic, topics[t] = None, ~Q!HasTopic(t), NEW s \in subjects,
         NEW p \in Request, bankProc[p].pc = "createTopic", Q!End(p),
         topics' = [topics EXCEPT ![t] = s], UNCHANGED <<subjects, questions, reviews, moved>>
  PROVE  BankInv'
<1>1. topics' \in [Topic -> Subject \cup {None}] /\ topics'[t] = s /\ s # None
      /\ \A o \in Topic : o # t => topics'[o] = topics[o]
  BY BankAssumption DEF BankInv, Q!TypeOK, Q!ConstantsAssumption
<1>2. \A q \in Question : Q!Exists(q) => questions[q].topic # t
  BY BankAssumption DEF BankInv, Q!BankIsConsistent, Q!KeysHold, Q!ConstantsAssumption
<1>3. \A q \in Question : questions[q].topic \in Topic \cup {None}
  BY DEF BankInv, Q!TypeOK, Q!Row
<1>4. Q!BankIsConsistent'
  <2>1. \A q \in Question : IF Q!Exists(q)' THEN Q!KeysHold(questions[q])' ELSE reviews'[q] = None
    BY <1>1, <1>3 DEF BankInv, Q!BankIsConsistent, Q!KeysHold, Q!Exists
  <2>2. \A o \in Topic : topics'[o] # None => topics'[o] \in subjects'
    BY <1>1 DEF BankInv, Q!BankIsConsistent
  <2>3. Q!Fitting \subseteq Q!Fitting' /\ Q!Existing' = Q!Existing
    BY <1>1, <1>2, <1>3 DEF Q!Fitting, Q!Existing, Q!Exists
  <2> QED
    BY <2>1, <2>2, <2>3 DEF BankInv, Q!BankIsConsistent
<1>5. ASSUME NEW q \in Request, NEW x \in Q!Local, x = bankProc[q], Resolved(x)
      PROVE  Resolved(x)'
  <2>1. x.pc = "create" => x.row.topic # t /\ x.row.topic \in Topic \cup {None}
    BY <1>5, BankLocals DEF Q!HasTopic, Q!Row
  <2>2. x.pc = "update" => x.change.topic # t /\ x.change.topic \in Topic \cup {None, Q!Keep}
    BY <1>5, BankLocals DEF Q!HasTopic, Q!Change
  <2> QED
    BY <1>1, <1>5, <2>1, <2>2 DEF Resolved, Q!Exists
<1> QED
  BY <1>1, <1>4, <1>5, BankEnds DEF BankInv, Q!TypeOK

LEMMA BankTopics ==
  ASSUME BankInv, NEW p \in Request, NEW t \in Topic, Q!CreateTopicWrite(p, t)
  PROVE  BankInv'
<1>1. CASE bankProc[p].subject \in subjects
  BY <1>1, TopicsCome DEF Q!CreateTopicWrite
<1>2. CASE bankProc[p].subject \notin subjects
  <2>1. UNCHANGED <<Q!tables, moved>> /\ Q!Goto(p, Q!Idle)
    BY <1>2 DEF Q!CreateTopicWrite, Q!tables, Q!End
  <2> QED
    BY <2>1, BankStarts, BankIdle
<1> QED
  BY <1>1, <1>2

LEMMA BankSubjects ==
  ASSUME BankInv, NEW s \in Subject, Q!CreateSubject(s)
  PROVE  BankInv'
<1>1. /\ subjects' \subseteq Subject /\ subjects \subseteq subjects'
      /\ UNCHANGED <<topics, questions, reviews, moved, bankProc>>
  BY DEF Q!CreateSubject, BankInv, Q!TypeOK
<1>2. Q!BankIsConsistent'
  BY <1>1 DEF BankInv, Q!BankIsConsistent, Q!Exists, Q!Existing, Q!Fitting, Q!KeysHold
<1>3. (\A o \in Request : Resolved(bankProc[o]))'
  BY <1>1 DEF BankInv, Resolved, Q!Exists
<1> QED
  BY <1>1, <1>2, <1>3 DEF BankInv, Q!TypeOK

\* Topics go, alone or with a subject that no question has.
LEMMA TopicsGo ==
  ASSUME BankInv, NEW gone \in SUBSET Topic, Q!DropTopics(gone), subjects' \subseteq subjects,
         \A t \in Topic \ gone : topics[t] # None => topics[t] \in subjects',
         \A q \in Q!Existing : questions[q].subject \in subjects',
         NEW p \in Request, Q!End(p), UNCHANGED <<reviews, moved>>
  PROVE  BankInv'
<1>1. /\ topics' \in [Topic -> Subject \cup {None}]
      /\ \A t \in Topic : topics'[t] = IF t \in gone THEN None ELSE topics[t]
  BY DEF BankInv, Q!TypeOK, Q!DropTopics
<1>2. ASSUME NEW q \in Question
      PROVE  /\ questions'[q] \in Q!Row
             /\ questions'[q].subject = questions[q].subject
             /\ questions'[q].topic = IF questions[q].topic \in gone THEN None
                                      ELSE questions[q].topic
             /\ questions[q].topic \in Topic \cup {None}
             /\ questions'[q] # Q!NoQuestion <=> questions[q] # Q!NoQuestion
  <2>1. questions[q] \in Q!Row
    BY DEF BankInv, Q!TypeOK
  <2>2. questions'[q] = IF questions[q].topic \in gone THEN [questions[q] EXCEPT !.topic = None]
                        ELSE questions[q]
    BY DEF Q!DropTopics
  <2>3. /\ questions'[q] \in Q!Row /\ questions'[q].subject = questions[q].subject
        /\ questions'[q].topic = IF questions[q].topic \in gone THEN None ELSE questions[q].topic
        /\ questions[q].topic \in Topic \cup {None}
    BY <2>1, <2>2 DEF Q!Row
  <2>4. questions[q] = Q!NoQuestion => questions'[q] = Q!NoQuestion
    BY <2>2, BankAssumption DEF Q!NoQuestion, Q!ConstantsAssumption
  <2>5. questions[q] # Q!NoQuestion => questions[q].subject # None
    BY BankAssumption DEF BankInv, Q!BankIsConsistent, Q!Exists, Q!KeysHold, Q!TypeOK,
       Q!ConstantsAssumption
  <2> QED
    BY <2>3, <2>4, <2>5 DEF Q!NoQuestion
<1>3. questions' \in [Question -> Q!Row]
  <2>1. questions' = [q \in Question |-> questions'[q]]
    BY DEF Q!DropTopics
  <2> QED
    BY <1>2, <2>1
<1>4. Q!BankIsConsistent'
  <2>1. ASSUME NEW q \in Question
        PROVE  IF Q!Exists(q)' THEN Q!KeysHold(questions[q])' ELSE reviews'[q] = None
    <3>1. CASE Q!Exists(q)'
      <4>1. Q!Exists(q)
        BY <1>2, <3>1 DEF Q!Exists
      <4>2. questions'[q].subject \in subjects'
        BY <1>2, <4>1 DEF Q!Existing
      <4>3. questions[q].topic # None => topics[questions[q].topic] # None
        BY <4>1 DEF BankInv, Q!BankIsConsistent, Q!KeysHold
      <4>4. questions'[q].topic # None =>
              questions'[q].topic \in Topic /\ topics'[questions'[q].topic] # None
        BY <1>1, <1>2, <4>3
      <4> QED
        BY <3>1, <4>2, <4>4 DEF Q!KeysHold
    <3>2. CASE ~Q!Exists(q)'
      <4>1. ~Q!Exists(q)
        BY <1>2, <3>2 DEF Q!Exists
      <4> QED
        BY <3>2, <4>1 DEF BankInv, Q!BankIsConsistent
    <3> QED
      BY <3>1, <3>2
  <2>2. \A t \in Topic : topics'[t] # None => topics'[t] \in subjects'
    BY <1>1
  <2>3. Q!Existing' = Q!Existing
    BY <1>2 DEF Q!Existing, Q!Exists
  <2>4. Q!Fitting \subseteq Q!Fitting'
    <3> SUFFICES ASSUME NEW q \in Q!Fitting PROVE q \in Q!Fitting'
      OBVIOUS
    <3>1. q \in Q!Existing' /\ q \in Question
      BY <2>3 DEF Q!Fitting, Q!Existing
    <3>2. questions[q].topic = None \/ topics[questions[q].topic] = questions[q].subject
      BY DEF Q!Fitting
    <3>3. questions'[q].topic = None \/ topics'[questions'[q].topic] = questions'[q].subject
      BY <1>1, <1>2, <3>1, <3>2
    <3> QED
      BY <3>1, <3>3 DEF Q!Fitting
  <2> QED
    BY <2>1, <2>2, <2>3, <2>4 DEF BankInv, Q!BankIsConsistent
<1>5. ASSUME NEW q \in Request, NEW x \in Q!Local, x = bankProc[q], Resolved(x)
      PROVE  Resolved(x)'
  <2>1. x.pc = "create" => x.row.topic \in Topic \cup {None}
    BY BankLocals DEF Q!Row
  <2>2. x.pc = "update" => x.question \in Question /\ x.change.topic \in Topic \cup {None, Q!Keep}
    BY BankLocals DEF Q!Change
  <2> QED
    BY <1>1, <1>2, <1>5, <2>1, <2>2 DEF Resolved, Q!Exists
<1> QED
  BY <1>1, <1>3, <1>4, <1>5, BankEnds DEF BankInv, Q!TypeOK

LEMMA BankDeletes ==
  ASSUME BankInv, NEW p \in Request, Q!DeleteSubjectWrite(p) \/ Q!DeleteTopicWrite(p)
  PROVE  BankInv'
<1>1. CASE Q!DeleteTopicWrite(p)
  <2>1. bankProc[p].topic \in Topic
    BY <1>1, BankLocals DEF Q!DeleteTopicWrite, BankInv, Q!TypeOK
  <2> DEFINE gone == {bankProc[p].topic}
  <2>2. /\ gone \in SUBSET Topic /\ Q!DropTopics(gone) /\ Q!End(p)
        /\ UNCHANGED <<subjects, reviews, moved>>
    BY <1>1, <2>1 DEF Q!DeleteTopicWrite
  <2>3. \A q \in Q!Existing : questions[q].subject \in subjects
    BY DEF BankInv, Q!BankIsConsistent, Q!Existing, Q!KeysHold
  <2>4. \A t \in Topic : topics[t] # None => topics[t] \in subjects
    BY DEF BankInv, Q!BankIsConsistent
  <2> HIDE DEF gone
  <2> QED
    BY <2>2, <2>3, <2>4, TopicsGo
<1>2. CASE Q!DeleteSubjectWrite(p)
  <2> DEFINE s == bankProc[p].subject
             gone == {t \in Topic : topics[t] = s}
  <2>1. CASE Q!MayDeleteSubject(s)
    <3>1. /\ gone \in SUBSET Topic /\ Q!DropTopics(gone) /\ Q!End(p)
          /\ subjects' = subjects \ {s} /\ UNCHANGED <<reviews, moved>>
      BY <1>2, <2>1 DEF Q!DeleteSubjectWrite
    <3>2. \A q \in Q!Existing : questions[q].subject \in subjects /\ questions[q].subject # s
      BY <2>1 DEF Q!MayDeleteSubject, Q!Using, BankInv, Q!BankIsConsistent, Q!Existing, Q!KeysHold
    <3>3. \A t \in Topic : topics[t] # None => topics[t] \in subjects
      BY DEF BankInv, Q!BankIsConsistent
    <3>4. /\ \A t \in Topic \ gone : topics[t] # None => topics[t] \in subjects'
          /\ \A q \in Q!Existing : questions[q].subject \in subjects'
          /\ subjects' \subseteq subjects
      BY <3>1, <3>2, <3>3
    <3> HIDE DEF gone, s
    <3> QED
      BY <3>1, <3>4, TopicsGo
  <2>2. CASE ~Q!MayDeleteSubject(s)
    <3>1. UNCHANGED <<Q!tables, moved>> /\ Q!Goto(p, Q!Idle)
      BY <1>2, <2>2 DEF Q!DeleteSubjectWrite, Q!tables, Q!End
    <3> QED
      BY <3>1, BankStarts, BankIdle
  <2> QED
    BY <2>1, <2>2
<1> QED
  BY <1>1, <1>2

-----------------------------------------------------------------------------
(* QuestionBank: questions *)

\* One question is written.
LEMMA QuestionWritten ==
  ASSUME BankInv, NEW p \in Request, NEW next \in Q!Local, next.pc \notin {"create", "update"},
         Q!Goto(p, next), NEW q \in Question, NEW new \in Q!Row, Q!KeysHold(new),
         questions' = [questions EXCEPT ![q] = new], UNCHANGED <<subjects, topics, reviews>>,
         moved \subseteq moved', moved' \subseteq moved \cup {q},
         q \notin moved' /\ new.topic # None => topics[new.topic] = new.subject,
         \/ q \in moved'
         \/ Q!Exists(q) /\ new.subject = questions[q].subject
         \/ ~Q!HasQuestion(q)
  PROVE  BankInv'
<1>1. /\ questions' \in [Question -> Q!Row] /\ questions'[q] = new
      /\ \A o \in Question : o # q => questions'[o] = questions[o]
  BY DEF BankInv, Q!TypeOK
<1>2. new # Q!NoQuestion
  BY BankAssumption DEF Q!KeysHold, Q!NoQuestion, BankInv, Q!TypeOK, Q!ConstantsAssumption
<1>3. Q!BankIsConsistent'
  <2>1. \A o \in Question : IF Q!Exists(o)' THEN Q!KeysHold(questions[o])' ELSE reviews'[o] = None
    BY <1>1, <1>2 DEF BankInv, Q!BankIsConsistent, Q!KeysHold, Q!Exists
  <2>2. \A t \in Topic : topics'[t] # None => topics'[t] \in subjects'
    BY DEF BankInv, Q!BankIsConsistent
  <2>3. ASSUME NEW o \in Q!Existing', o \notin moved' PROVE o \in Q!Fitting'
    <3>1. o \in Question
      BY DEF Q!Existing
    <3>2. CASE o = q
      BY <1>1, <2>3, <3>2 DEF Q!Fitting
    <3>3. CASE o # q
      <4>1. o \in Q!Existing \ moved
        BY <1>1, <2>3, <3>1, <3>3 DEF Q!Existing, Q!Exists
      <4>2. questions[o].topic = None \/ topics[questions[o].topic] = questions[o].subject
        BY <4>1 DEF BankInv, Q!BankIsConsistent, Q!Fitting
      <4>3. questions'[o].topic = None \/ topics'[questions'[o].topic] = questions'[o].subject
        BY <1>1, <3>1, <3>3, <4>2
      <4> QED
        BY <2>3, <4>3 DEF Q!Fitting
    <3> QED
      BY <3>2, <3>3
  <2> QED
    BY <2>1, <2>2, <2>3 DEF Q!BankIsConsistent
<1>4. ASSUME NEW r \in Request, NEW x \in Q!Local, r # p, x = bankProc[r], Resolved(x)
      PROVE  Resolved(x)'
  <2>1. CASE x.pc # "update"
    BY <1>4, <2>1 DEF Resolved
  <2>2. CASE x.pc = "update" /\ x.question # q
    <3>1. x.question \in Question
      BY <2>2, BankLocals
    <3> QED
      BY <1>1, <1>4, <2>2, <3>1 DEF Resolved, Q!Exists
  <2>3. CASE x.pc = "update" /\ x.question = q
    <3>1. Q!HasQuestion(q)
      BY <1>4, <2>3 DEF Q!HasQuestion
    <3> QED
      BY <1>1, <1>4, <2>3, <3>1 DEF Resolved, Q!Exists
  <2> QED
    BY <2>1, <2>2, <2>3
<1>5. Resolved(next)'
  BY DEF Resolved
<1>6. bankProc' \in [Request -> Q!Local] /\ (\A r \in Request : Resolved(bankProc[r]))'
  BY <1>4, <1>5, BankMoves
<1> QED
  BY <1>1, <1>3, <1>6 DEF BankInv, Q!TypeOK

LEMMA BankCreates ==
  ASSUME BankInv, NEW p \in Request, NEW q \in Question, Q!CreateWrite(p, q)
  PROVE  BankInv'
<1> DEFINE row == bankProc[p].row
           n == bankProc[p].rows
<1>1. bankProc[p] \in Q!Local /\ Resolved(bankProc[p]) /\ bankProc[p].pc = "create"
  BY DEF BankInv, Q!TypeOK, Q!CreateWrite
<1>2. row \in Q!Row /\ n \in 0..MaxRows
  BY <1>1, BankLocals
<1>3. PICK next \in Q!Local : next.pc \in {"idle", "import"} /\ Q!Goto(p, next)
  <2> DEFINE I == [pc |-> "import", rows |-> n]
  <2>1. I \in Q!Local
    BY <1>2 DEF Q!Local
  <2>2. Q!Goto(p, Q!Idle) \/ Q!Goto(p, I)
    BY DEF Q!CreateWrite
  <2> QED
    BY <2>1, <2>2, BankIdle
<1>4. CASE Q!KeysHold(row)
  <2>1. /\ questions' = [questions EXCEPT ![q] = row] /\ moved' = moved
        /\ UNCHANGED <<subjects, topics, reviews>> /\ ~Q!HasQuestion(q)
    BY <1>4 DEF Q!CreateWrite
  <2>2. row.topic # None => topics[row.topic] = row.subject
    BY <1>1, <1>4 DEF Resolved, Q!KeysHold
  <2> HIDE DEF row
  <2> QED
    BY <1>2, <1>3, <1>4, <2>1, <2>2, QuestionWritten
<1>5. CASE ~Q!KeysHold(row)
  <2>1. UNCHANGED <<Q!tables, moved>>
    BY <1>5 DEF Q!CreateWrite, Q!tables
  <2>2. Resolved(next)
    BY <1>3 DEF Resolved
  <2> QED
    BY <1>3, <2>1, <2>2, BankStarts
<1> QED
  BY <1>4, <1>5

LEMMA BankUpdates ==
  ASSUME BankInv, NEW p \in Request, Q!UpdateWrite(p)
  PROVE  BankInv'
<1> DEFINE q == bankProc[p].question
           change == bankProc[p].change
           s == IF change.subject = Q!Keep THEN questions[q].subject ELSE change.subject
           t == IF change.topic = Q!Keep THEN questions[q].topic ELSE change.topic
           new == [questions[q] EXCEPT !.subject = s, !.topic = t]
<1>1. bankProc[p] \in Q!Local /\ Resolved(bankProc[p]) /\ bankProc[p].pc = "update"
  BY DEF BankInv, Q!TypeOK, Q!UpdateWrite
<1>2. q \in Question /\ change \in Q!Change /\ questions[q] \in Q!Row
  BY <1>1, BankLocals DEF BankInv, Q!TypeOK
<1>3. s \in Subject \cup {None} /\ t \in Topic \cup {None}
  BY <1>2 DEF Q!Row, Q!Change
<1>4. new \in Q!Row /\ new.subject = s /\ new.topic = t
  BY <1>2, <1>3 DEF Q!Row
<1>5. CASE Q!Exists(q) /\ Q!KeysHold(new)
  <2>1. /\ questions' = [questions EXCEPT ![q] = new]
        /\ moved' = IF change.subject = Q!Keep THEN moved ELSE moved \cup {q}
        /\ UNCHANGED <<subjects, topics, reviews>> /\ Q!Goto(p, Q!Idle)
    BY <1>5 DEF Q!UpdateWrite, Q!End
  <2>2. ASSUME q \notin moved', t # None PROVE topics[t] = s
    <3>1. q \notin moved /\ s = questions[q].subject /\ change.subject = Q!Keep
      BY <2>1, <2>2
    <3>2. topics[t] # None
      BY <1>4, <1>5, <2>2 DEF Q!KeysHold
    <3>3. CASE change.topic = Q!Keep
      <4>1. q \in Q!Existing \ moved
        BY <1>2, <1>5, <3>1 DEF Q!Existing
      <4>2. q \in Q!Fitting
        BY <4>1 DEF BankInv, Q!BankIsConsistent
      <4> QED
        BY <2>2, <3>1, <3>3, <4>2 DEF Q!Fitting
    <3>4. CASE change.topic # Q!Keep
      BY <1>1, <1>5, <2>2, <3>1, <3>2, <3>4 DEF Resolved
    <3> QED
      BY <3>3, <3>4
  <2>3. q \in moved' \/ (Q!Exists(q) /\ new.subject = questions[q].subject)
    <3>1. new.subject = s
      BY <1>4
    <3>2. q \in moved' \/ s = questions[q].subject
      BY <2>1
    <3>3. Q!Exists(q)
      BY <1>5
    <3> HIDE DEF new, q, s
    <3> QED
      BY <3>1, <3>2, <3>3
  <2>4. moved \subseteq moved' /\ moved' \subseteq moved \cup {q}
    BY <2>1
  <2>5. q \notin moved' /\ new.topic # None => topics[new.topic] = new.subject
    BY <1>4, <2>2
  <2> HIDE DEF new, q
  <2> QED
    BY <1>2, <1>4, <1>5, <2>1, <2>3, <2>4, <2>5, BankIdle, QuestionWritten
<1>6. CASE ~(Q!Exists(q) /\ Q!KeysHold(new))
  <2>1. UNCHANGED <<Q!tables, moved>> /\ Q!Goto(p, Q!Idle)
    BY <1>6 DEF Q!UpdateWrite, Q!tables, Q!End
  <2> QED
    BY <2>1, BankStarts, BankIdle
<1> QED
  BY <1>5, <1>6

LEMMA BankToggles ==
  ASSUME BankInv, NEW p \in Request, Q!ToggleWrite(p)
  PROVE  BankInv'
<1> DEFINE q == bankProc[p].question
           new == [questions[q] EXCEPT !.published = ~bankProc[p].published]
<1>1. q \in Question /\ bankProc[p].published \in BOOLEAN /\ questions[q] \in Q!Row
  BY BankLocals DEF Q!ToggleWrite, BankInv, Q!TypeOK
<1>2. new \in Q!Row /\ new.subject = questions[q].subject /\ new.topic = questions[q].topic
  BY <1>1 DEF Q!Row
<1>3. CASE Q!Exists(q)
  <2>1. /\ questions' = [questions EXCEPT ![q] = new] /\ moved' = moved
        /\ UNCHANGED <<subjects, topics, reviews>> /\ Q!Goto(p, Q!Idle)
    BY <1>3 DEF Q!ToggleWrite, Q!End
  <2>2. Q!KeysHold(new)
    BY <1>1, <1>2, <1>3 DEF BankInv, Q!BankIsConsistent, Q!KeysHold
  <2>3. q \notin moved' /\ new.topic # None => topics[new.topic] = new.subject
    BY <1>1, <1>2, <1>3, <2>1 DEF BankInv, Q!BankIsConsistent, Q!Fitting, Q!Existing
  <2> HIDE DEF new, q
  <2> QED
    BY <1>1, <1>2, <1>3, <2>1, <2>2, <2>3, BankIdle, QuestionWritten
<1>4. CASE ~Q!Exists(q)
  <2>1. UNCHANGED <<Q!tables, moved>> /\ Q!Goto(p, Q!Idle)
    BY <1>4 DEF Q!ToggleWrite, Q!tables, Q!End
  <2> QED
    BY <2>1, BankStarts, BankIdle
<1> QED
  BY <1>3, <1>4

LEMMA BankRemoves ==
  ASSUME BankInv, NEW p \in Request, Q!RemoveWrite(p)
  PROVE  BankInv'
<1> DEFINE q == bankProc[p].question
<1>1. q \in Question
  BY BankLocals DEF Q!RemoveWrite, BankInv, Q!TypeOK
<1>2. Q!NoQuestion \in Q!Row
  BY DEF Q!NoQuestion, Q!Row
<1>3. /\ questions' \in [Question -> Q!Row] /\ questions'[q] = Q!NoQuestion
      /\ reviews' \in [Question -> Q!Status \cup {None}] /\ reviews'[q] = None
      /\ \A o \in Question : o # q => questions'[o] = questions[o] /\ reviews'[o] = reviews[o]
      /\ moved' = moved \ {q} /\ UNCHANGED <<subjects, topics>> /\ Q!End(p)
  BY <1>1, <1>2 DEF Q!RemoveWrite, BankInv, Q!TypeOK
<1> HIDE DEF q
<1>4. Q!BankIsConsistent'
  <2>1. \A o \in Question : IF Q!Exists(o)' THEN Q!KeysHold(questions[o])' ELSE reviews'[o] = None
    BY <1>3 DEF BankInv, Q!BankIsConsistent, Q!KeysHold, Q!Exists
  <2>2. \A t \in Topic : topics'[t] # None => topics'[t] \in subjects'
    BY <1>3 DEF BankInv, Q!BankIsConsistent
  <2>3. Q!Existing' \ moved' \subseteq Q!Fitting'
    BY <1>1, <1>3 DEF BankInv, Q!BankIsConsistent, Q!Fitting, Q!Existing, Q!Exists
  <2> QED
    BY <2>1, <2>2, <2>3 DEF Q!BankIsConsistent
<1>5. ASSUME NEW r \in Request, NEW x \in Q!Local, x = bankProc[r], Resolved(x)
      PROVE  Resolved(x)'
  <2>1. x.pc = "update" => x.question \in Question
    BY BankLocals
  <2> QED
    BY <1>1, <1>3, <1>5, <2>1 DEF Resolved, Q!Exists
<1> QED
  BY <1>3, <1>4, <1>5, BankEnds DEF BankInv, Q!TypeOK

LEMMA BankStart == Q!Init => BankInv
<1> SUFFICES ASSUME Q!Init PROVE BankInv
  OBVIOUS
<1>1. Q!NoQuestion \in Q!Row
  BY DEF Q!NoQuestion, Q!Row
<1>2. Q!TypeOK
  BY <1>1, BankIdle DEF Q!Init, Q!TypeOK
<1>3. Q!BankIsConsistent
  BY DEF Q!Init, Q!BankIsConsistent, Q!Exists, Q!Existing
<1>4. \A p \in Request : Resolved(bankProc[p])
  BY BankIdle DEF Q!Init
<1> QED
  BY <1>2, <1>3, <1>4 DEF BankInv

LEMMA BankStep == ASSUME BankInv, [Q!Next]_Q!vars PROVE BankInv'
<1>1. ASSUME NEW p \in Request, Q!Step(p) PROVE BankInv'
  BY <1>1, BankBegins, BankLooksUp, BankReviews, BankTopics, BankDeletes, BankCreates,
     BankUpdates, BankToggles, BankRemoves DEF Q!Step
<1>2. ASSUME UNCHANGED Q!vars PROVE BankInv'
  BY <1>2 DEF Q!vars, Q!tables, BankInv, Q!TypeOK, Q!BankIsConsistent, Q!Exists, Q!Existing,
     Q!Fitting, Q!KeysHold, Resolved
<1> QED
  BY <1>1, <1>2, BankSubjects, BankVerdicts DEF Q!Next

LEMMA BankTypes == Q!Spec => []BankInv
  BY BankStart, BankStep, PTL DEF Q!Spec

(***************************************************************************)
(* Whatever is created, imported, updated and deleted at the same time,    *)
(* each after a look that may be out of date, the foreign keys and the     *)
(* checks of the service keep the bank consistent: the subject and the     *)
(* topic of a question and the subject of a topic exist, only questions    *)
(* have reviews, and a topic belongs to the subject of its questions but   *)
(* for those that were given a subject alone.                              *)
(***************************************************************************)
THEOREM TheBankIsConsistent == Q!Spec => []BankIsConsistent
<1>1. BankInv => BankIsConsistent
  BY DEF BankInv, BankIsConsistent
<1> QED
  BY <1>1, BankTypes, PTL

-----------------------------------------------------------------------------
(* ExamAttempts: types *)

\* A set of natural numbers has a least one.
LEMMA NatMin ==
  ASSUME NEW T \in SUBSET Nat, T # {}
  PROVE  \E x \in T : \A y \in T : x <= y
<1>1. \E x \in T : \A y \in T : ~ (<<y, x>> \in OpToRel(<, Nat))
  BY NatLessThanWellFounded, WFMin
<1>2. \A x, y \in Nat : ~ (<<y, x>> \in OpToRel(<, Nat)) => x <= y
  BY DEF OpToRel
<1> QED
  BY <1>1, <1>2

\* Some of the first n sessions have a last one.
LEMMA LatestIn ==
  ASSUME NEW n \in Nat, NEW found \in SUBSET (1..n), found # {}
  PROVE  S!Latest(found) \in found
<1> DEFINE T == {m \in Nat : \E i \in found : m = n - i}
<1>1. T \in SUBSET Nat /\ T # {}
  <2>1. \A i \in found : n - i \in Nat
    OBVIOUS
  <2> QED
    BY <2>1
<1>2. PICK x \in T : \A y \in T : x <= y
  BY <1>1, NatMin
<1>3. PICK i \in found : x = n - i
  OBVIOUS
<1>4. \A j \in found : i >= j
  <2> TAKE j \in found
  <2>1. n - j \in T
    OBVIOUS
  <2>2. n - i <= n - j
    BY <1>2, <1>3, <2>1
  <2>3. i \in 1..n /\ j \in 1..n
    OBVIOUS
  <2> QED
    BY <2>2, <2>3
<1>5. \E j \in found : \A k \in found : j >= k
  BY <1>4
<1> QED
  BY <1>5 DEF S!Latest, S!Max

\* The instances count as this module does.
LEMMA SameCount ==
  /\ \A T : S!IsFiniteSet(T) <=> IsFiniteSet(T)
  /\ \A T : S!Cardinality(T) = Cardinality(T)
<1>1. \A T : S!IsFiniteSet(T) <=> IsFiniteSet(T)
  BY DEF S!IsFiniteSet, IsFiniteSet
<1>2. \A T : S!Cardinality(T) = Cardinality(T)
  BY DEF S!Cardinality, Cardinality
<1> QED
  BY <1>1, <1>2

\* The sessions are numbered as they start.
Numbered(n) == n \in 0..MaxSessions /\ rows \in [1..n -> S!Row]

StartsTyped ==
  /\ config \in Configuration \cup {None} /\ open \subseteq S!Exam
  /\ booking \in {"EXAM", "PRACTICE", None}
  /\ \E n \in Nat : Numbered(n)
  /\ day \in 0..MaxDay
  /\ startProc \in [Request -> S!Local]
  /\ beyond \in Nat

LEMMA NumberedIsNumber ==
  ASSUME NEW n, Numbered(n)
  PROVE  n \in Nat /\ S!Number = n /\ DOMAIN rows = 1..n
<1>1. n \in Nat /\ DOMAIN rows = 1..n
  BY StartsAssumption DEF Numbered, S!ConstantsAssumption
<1>2. Cardinality(1..n) = n
  BY <1>1, FS_Interval
<1> QED
  BY <1>1, <1>2, SameCount DEF S!Number

\* What a request holds goes with where it is.
LEMMA StartLocals ==
  ASSUME NEW x \in S!Local
  PROVE  /\ x.pc = "saveConfig" => x.config \in Configuration \cup {None}
         /\ x.pc \in {"find", "count", "expire", "assign", "insertPretest"} =>
              x.config \in Configuration
         /\ x.pc \in {"find", "count", "expire"} => x.day \in 0..MaxDay
         /\ x.pc = "insertPretest" => x.exam \in Official \cup {None}
         /\ x.pc \in {"linked", "latest", "insert", "end"} =>
              x.exam \in S!Exam /\ x.booked \in BOOLEAN
         /\ x.pc \in {"linked", "latest", "insert"} =>
              x \in [pc : {"linked", "latest", "insert"}, exam : S!Exam, booked : BOOLEAN]
         /\ x.pc = "end" => x.next \in {"latest", "insert"}
<1>1. x.pc = "saveConfig" => x.config \in Configuration \cup {None}
  BY DEF S!Local, S!Idle
<1>2. x.pc \in {"find", "count"} => x.config \in Configuration /\ x.day \in 0..MaxDay
  BY DEF S!Local, S!Idle
<1>3. x.pc = "expire" => x.config \in Configuration /\ x.day \in 0..MaxDay
  BY DEF S!Local, S!Idle
<1>4. x.pc = "assign" => x.config \in Configuration
  BY DEF S!Local, S!Idle
<1>5. x.pc = "insertPretest" => x.config \in Configuration /\ x.exam \in Official \cup {None}
  BY DEF S!Local, S!Idle
<1>6. x.pc \in {"linked", "latest", "insert"} =>
        x \in [pc : {"linked", "latest", "insert"}, exam : S!Exam, booked : BOOLEAN]
  BY DEF S!Local, S!Idle
<1>7. x.pc = "end" =>
        x.exam \in S!Exam /\ x.booked \in BOOLEAN /\ x.next \in {"latest", "insert"}
  BY DEF S!Local, S!Idle
<1>8. x.pc \in {"linked", "latest", "insert"} => x.exam \in S!Exam /\ x.booked \in BOOLEAN
  BY <1>6
<1> QED
  BY <1>1, <1>2, <1>3, <1>4, <1>5, <1>6, <1>7, <1>8

LEMMA StartIdle == S!Idle \in S!Local /\ S!Idle.pc = "idle"
  BY DEF S!Local, S!Idle

LEMMA StartMoves ==
  ASSUME StartsTyped, NEW p \in Request, NEW next \in S!Local, S!Goto(p, next)
  PROVE  /\ startProc' \in [Request -> S!Local] /\ startProc'[p] = next
         /\ \A q \in Request : q # p => startProc'[q] = startProc[q]
  BY DEF StartsTyped, S!Goto

\* Sessions may be written; they keep exam, kind and day.
Kept ==
  /\ DOMAIN rows' = DOMAIN rows
  /\ \A i \in DOMAIN rows : /\ rows'[i].exam = rows[i].exam /\ rows'[i].day = rows[i].day
                            /\ rows'[i].pretest = rows[i].pretest

LEMMA OverIsRow ==
  ASSUME NEW row \in S!Row, NEW passed \in BOOLEAN \cup {None}
  PROVE  LET over == S!Over(row, passed) IN
         /\ over \in S!Row /\ over.ended /\ over.passed = passed
         /\ over.exam = row.exam /\ over.day = row.day /\ over.pretest = row.pretest
         /\ over.published = row.published
  BY DEF S!Over, S!Row

LEMMA RowChanges ==
  ASSUME NEW n, Numbered(n), NEW i, NEW row, rows' = [rows EXCEPT ![i] = row],
         i \in DOMAIN rows => /\ row \in S!Row /\ row.exam = rows[i].exam /\ row.day = rows[i].day
                              /\ row.pretest = rows[i].pretest
  PROVE  Kept /\ Numbered(n)'
  BY DEF Kept, Numbered

\* What a request reads, where it goes then.
StartReads(p) ==
  \/ \E new \in Configuration \cup {None} : S!ConfigRead(p, new)
  \/ S!PretestBegin(p) \/ S!FindPretest(p) \/ S!CountPretests(p)
  \/ S!AssignFromPool(p) \/ S!AssignFromBank(p)
  \/ \E x \in S!Exam, walkIn \in BOOLEAN : S!StartBegin(p, x, walkIn)
  \/ S!FindLinked(p) \/ S!FindLatest(p) \/ S!Fail(p)

LEMMA StartsPretest ==
  ASSUME StartsTyped, NEW p \in Request,
         \/ \E new \in Configuration \cup {None} : S!ConfigRead(p, new)
         \/ S!PretestBegin(p) \/ S!FindPretest(p) \/ S!CountPretests(p)
         \/ S!AssignFromPool(p) \/ S!AssignFromBank(p)
  PROVE  \E next \in S!Local : S!Goto(p, next)
<1> DEFINE x == startProc[p]
<1>1. x \in S!Local
  BY DEF StartsTyped
<1>2. ASSUME NEW new \in Configuration \cup {None}, S!ConfigRead(p, new)
      PROVE  \E next \in S!Local : S!Goto(p, next)
  <2>1. [pc |-> "saveConfig", config |-> new] \in S!Local
    BY DEF S!Local
  <2> QED
    BY <1>2, <2>1 DEF S!ConfigRead
<1>3. ASSUME S!PretestBegin(p) PROVE \E next \in S!Local : S!Goto(p, next)
  <2>1. config \in Configuration /\ day \in 0..MaxDay
    BY <1>3 DEF S!PretestBegin, StartsTyped
  <2>2. [pc |-> "find", config |-> config, day |-> day] \in S!Local
    BY <2>1 DEF S!Local
  <2> QED
    BY <1>3, <2>2 DEF S!PretestBegin
<1>4. ASSUME S!FindPretest(p) PROVE \E next \in S!Local : S!Goto(p, next)
  <2> DEFINE found == {i \in DOMAIN rows : rows[i].pretest /\ ~rows[i].ended}
             C == [pc |-> "count", config |-> x.config, day |-> x.day]
             E == [pc |-> "expire", config |-> x.config, day |-> x.day, id |-> S!Latest(found)]
  <2>1. x.config \in Configuration /\ x.day \in 0..MaxDay
    BY <1>1, <1>4, StartLocals DEF S!FindPretest
  <2>2. C \in S!Local
    BY <2>1 DEF S!Local
  <2>3. found # {} => S!Latest(found) \in S!Id
    <3>1. PICK n \in Nat : Numbered(n)
      BY DEF StartsTyped
    <3>2. DOMAIN rows = 1..n /\ 1..n \subseteq S!Id
      BY <3>1, NumberedIsNumber, StartsAssumption DEF Numbered, S!Id, S!ConstantsAssumption
    <3> QED
      BY <3>2, LatestIn
  <2>4. found # {} => E \in S!Local
    BY <2>1, <2>3 DEF S!Local
  <2>5. S!End(p) \/ S!Goto(p, C) \/ (found # {} /\ S!Goto(p, E))
    BY <1>4 DEF S!FindPretest
  <2> HIDE DEF C, E, found
  <2> QED
    BY <2>2, <2>4, <2>5, StartIdle DEF S!End
<1>5. ASSUME S!CountPretests(p) PROVE \E next \in S!Local : S!Goto(p, next)
  <2>1. x.config \in Configuration
    BY <1>1, <1>5, StartLocals DEF S!CountPretests
  <2>2. [pc |-> "assign", config |-> x.config] \in S!Local
    BY <2>1 DEF S!Local
  <2> QED
    BY <1>5, <2>2, StartIdle DEF S!CountPretests, S!End
<1>6. ASSUME S!AssignFromPool(p) \/ S!AssignFromBank(p)
      PROVE  \E next \in S!Local : S!Goto(p, next)
  <2>1. x.config \in Configuration /\ x.config.pool \subseteq Official
    BY <1>1, <1>6, StartLocals, StartsAssumption
    DEF S!AssignFromPool, S!AssignFromBank, S!ConstantsAssumption
  <2>2. \A exam \in Official \cup {None} :
          [pc |-> "insertPretest", config |-> x.config, exam |-> exam] \in S!Local
    BY <2>1 DEF S!Local
  <2>3. S!End(p) \/ \E exam \in Official \cup {None} : S!Assign(p, exam)
    BY <1>6, <2>1 DEF S!AssignFromPool, S!AssignFromBank
  <2> QED
    BY <2>2, <2>3, StartIdle DEF S!End, S!Assign
<1> QED
  BY <1>2, <1>3, <1>4, <1>5, <1>6

LEMMA StartsFromList ==
  ASSUME StartsTyped, NEW p \in Request,
         \/ \E x \in S!Exam, walkIn \in BOOLEAN : S!StartBegin(p, x, walkIn)
         \/ S!FindLinked(p) \/ S!FindLatest(p) \/ S!Fail(p)
  PROVE  \E next \in S!Local : S!Goto(p, next)
<1> DEFINE x == startProc[p]
<1>1. x \in S!Local
  BY DEF StartsTyped
<1>0. PICK n \in Nat : Numbered(n)
  BY DEF StartsTyped
<1>2. /\ DOMAIN rows = 1..n /\ 1..n \subseteq S!Id
  BY <1>0, NumberedIsNumber, StartsAssumption DEF Numbered, S!Id, S!ConstantsAssumption
<1>3. \A found \in SUBSET DOMAIN rows : found # {} => S!Latest(found) \in S!Id
  BY <1>2, LatestIn
<1>4. \A exam \in S!Exam, booked \in BOOLEAN, i \in S!Id :
        /\ [pc |-> "linked", exam |-> exam, booked |-> booked] \in S!Local
        /\ [pc |-> "latest", exam |-> exam, booked |-> booked] \in S!Local
        /\ [pc |-> "insert", exam |-> exam, booked |-> booked] \in S!Local
        /\ \A next \in {"latest", "insert"} :
             [pc |-> "end", exam |-> exam, booked |-> booked, id |-> i, next |-> next] \in S!Local
  <2> TAKE exam \in S!Exam, booked \in BOOLEAN, i \in S!Id
  <2>1. \A pc \in {"linked", "latest", "insert"} :
          [pc |-> pc, exam |-> exam, booked |-> booked] \in S!Local
    BY DEF S!Local
  <2>2. \A next \in {"latest", "insert"} :
          [pc |-> "end", exam |-> exam, booked |-> booked, id |-> i, next |-> next] \in S!Local
    BY DEF S!Local
  <2> QED
    BY <2>1, <2>2
<1>5. ASSUME NEW e \in S!Exam, NEW walkIn \in BOOLEAN, S!StartBegin(p, e, walkIn)
      PROVE  \E next \in S!Local : S!Goto(p, next)
  <2> DEFINE booked == e \in Practice /\ booking = "PRACTICE"
  <2>1. booked \in BOOLEAN
    OBVIOUS
  <2>2. S!Goto(p, [pc |-> IF booked THEN "linked" ELSE "latest", exam |-> e, booked |-> booked])
    BY <1>5 DEF S!StartBegin
  <2>3. [pc |-> IF booked THEN "linked" ELSE "latest", exam |-> e, booked |-> booked] \in S!Local
    BY <2>1 DEF S!Local
  <2> QED
    BY <2>2, <2>3
<1>6. ASSUME S!FindLinked(p) PROVE \E next \in S!Local : S!Goto(p, next)
  <2> DEFINE found == {i \in DOMAIN rows : rows[i].booked /\ ~rows[i].ended}
             L == [x EXCEPT !.pc = "latest"]
  <2>1. /\ x.exam \in S!Exam /\ x.booked \in BOOLEAN
        /\ x \in [pc : {"linked", "latest", "insert"}, exam : S!Exam, booked : BOOLEAN]
    BY <1>1, <1>6, StartLocals DEF S!FindLinked
  <2>2. L = [pc |-> "latest", exam |-> x.exam, booked |-> x.booked]
    BY <2>1
  <2>3. L \in S!Local
    BY <1>2, <2>1, <2>2 DEF S!Local
  <2>4. found # {} => S!Latest(found) \in S!Id
    BY <1>3
  <2>5. S!End(p) \/ S!Goto(p, L) \/ (found # {} /\ S!EndNext(p, S!Latest(found), "latest"))
    BY <1>6 DEF S!FindLinked
  <2> HIDE DEF found, L
  <2> QED
    BY <1>4, <2>1, <2>3, <2>4, <2>5, StartIdle DEF S!End, S!EndNext
<1>7. ASSUME S!FindLatest(p) PROVE \E next \in S!Local : S!Goto(p, next)
  <2>1. x.exam \in S!Exam /\ x.booked \in BOOLEAN
    BY <1>1, <1>7, StartLocals DEF S!FindLatest
  <2> DEFINE found == S!Started(x.exam)
             I == [pc |-> "insert", exam |-> x.exam, booked |-> x.booked]
  <2>2. I \in S!Local
    BY <2>1 DEF S!Local
  <2>3. found # {} => S!Latest(found) \in S!Id
    BY <1>3 DEF S!Started
  <2>4. S!End(p) \/ S!Goto(p, I) \/ (found # {} /\ S!EndNext(p, S!Latest(found), "insert"))
    BY <1>7 DEF S!FindLatest
  <2> HIDE DEF found, I
  <2> QED
    BY <1>4, <2>1, <2>2, <2>3, <2>4, StartIdle DEF S!End, S!EndNext
<1>8. ASSUME S!Fail(p) PROVE \E next \in S!Local : S!Goto(p, next)
  BY <1>8, StartIdle DEF S!Fail, S!End
<1> QED
  BY <1>5, <1>6, <1>7, <1>8

LEMMA StartsRead ==
  ASSUME StartsTyped, NEW p \in Request, StartReads(p)
  PROVE  /\ StartsTyped' /\ UNCHANGED <<config, open, booking, rows, day, beyond>>
         /\ \E next \in S!Local : S!Goto(p, next)
<1>1. UNCHANGED <<config, open, booking, rows, day, beyond>>
  BY DEF StartReads, S!ConfigRead, S!PretestBegin, S!FindPretest, S!CountPretests,
     S!AssignFromPool, S!AssignFromBank, S!StartBegin, S!FindLinked, S!FindLatest, S!Fail, S!Reads
<1>2. PICK next \in S!Local : S!Goto(p, next)
  BY StartsPretest, StartsFromList DEF StartReads
<1>3. startProc' \in [Request -> S!Local]
  BY <1>2, StartMoves
<1> QED
  BY <1>1, <1>2, <1>3 DEF StartsTyped, Numbered

\* A session may be ended, graded, published, extended by anybody, a booking be over.
StartEvents ==
  \/ \E i \in S!Id, passed \in BOOLEAN \cup {None} : S!EndSession(i, passed)
  \/ \E i \in S!Id, passed \in BOOLEAN : S!Grade(i, passed)
  \/ \E i \in S!Id : S!Publish(i) \/ \E late \in BOOLEAN : S!Deadline(i, late)
  \/ \E type \in {"EXAM", "PRACTICE", None} : S!Book(type)

LEMMA EventsKeep ==
  ASSUME StartsTyped, StartEvents
  PROVE  /\ StartsTyped' /\ Kept /\ UNCHANGED <<day, startProc, beyond>>
<1>1. PICK n \in Nat : Numbered(n)
  BY DEF StartsTyped
<1>2. DOMAIN rows = 1..n /\ rows \in [1..n -> S!Row] /\ n \in 0..MaxSessions
  BY <1>1, NumberedIsNumber DEF Numbered
<1>3. ASSUME NEW i \in S!Id, NEW passed \in BOOLEAN \cup {None}, S!EndSession(i, passed)
      PROVE  Kept /\ Numbered(n)'
  <2>1. rows' = [rows EXCEPT ![i] = S!Over(rows[i], passed)] /\ rows[i] \in S!Row
    BY <1>2, <1>3 DEF S!EndSession
  <2> DEFINE row == S!Over(rows[i], passed)
  <2>2. /\ row \in S!Row /\ row.exam = rows[i].exam /\ row.day = rows[i].day
        /\ row.pretest = rows[i].pretest
    BY <2>1, OverIsRow
  <2> HIDE DEF row
  <2>3. rows' = [rows EXCEPT ![i] = row]
    BY <2>1 DEF row
  <2> QED
    BY <1>1, <2>2, <2>3, RowChanges
<1>4. ASSUME NEW i \in S!Id, NEW row \in S!Row, rows' = [rows EXCEPT ![i] = row],
             row.exam = rows[i].exam, row.day = rows[i].day, row.pretest = rows[i].pretest
      PROVE  Kept /\ Numbered(n)'
  BY <1>1, <1>4, RowChanges
<1>5. ASSUME NEW i \in S!Id, NEW passed \in BOOLEAN, S!Grade(i, passed)
      PROVE  Kept /\ Numbered(n)'
  <2> DEFINE row == [rows[i] EXCEPT !.passed = passed]
  <2>1. rows' = [rows EXCEPT ![i] = row] /\ rows[i] \in S!Row
    BY <1>2, <1>5 DEF S!Grade
  <2>2. /\ row \in S!Row /\ row.exam = rows[i].exam /\ row.day = rows[i].day
        /\ row.pretest = rows[i].pretest
    BY <2>1 DEF S!Row
  <2> HIDE DEF row
  <2> QED
    BY <1>4, <2>1, <2>2
<1>6. ASSUME NEW i \in S!Id, S!Publish(i) PROVE Kept /\ Numbered(n)'
  <2> DEFINE row == [rows[i] EXCEPT !.published = TRUE]
  <2>1. rows' = [rows EXCEPT ![i] = row] /\ rows[i] \in S!Row
    BY <1>2, <1>6 DEF S!Publish
  <2>2. /\ row \in S!Row /\ row.exam = rows[i].exam /\ row.day = rows[i].day
        /\ row.pretest = rows[i].pretest
    BY <2>1 DEF S!Row
  <2> HIDE DEF row
  <2> QED
    BY <1>4, <2>1, <2>2
<1>7. ASSUME NEW i \in S!Id, NEW late \in BOOLEAN, S!Deadline(i, late)
      PROVE  Kept /\ Numbered(n)'
  <2> DEFINE row == [rows[i] EXCEPT !.late = late]
  <2>1. rows' = [rows EXCEPT ![i] = row] /\ rows[i] \in S!Row
    BY <1>2, <1>7 DEF S!Deadline
  <2>2. /\ row \in S!Row /\ row.exam = rows[i].exam /\ row.day = rows[i].day
        /\ row.pretest = rows[i].pretest
    BY <2>1 DEF S!Row
  <2> HIDE DEF row
  <2> QED
    BY <1>4, <2>1, <2>2
<1>8. ASSUME NEW type \in {"EXAM", "PRACTICE", None}, S!Book(type)
      PROVE  Kept /\ Numbered(n)' /\ booking' = type
  <2>1. rows' = [i \in 1..n |-> [rows[i] EXCEPT !.booked = FALSE]] /\ booking' = type
    BY <1>2, <1>8 DEF S!Book
  <2>2. \A row \in S!Row :
          LET new == [row EXCEPT !.booked = FALSE] IN
          new \in S!Row /\ new.exam = row.exam /\ new.day = row.day /\ new.pretest = row.pretest
    BY DEF S!Row
  <2> QED
    BY <1>2, <2>1, <2>2 DEF Kept, Numbered
<1>9. Kept /\ Numbered(n)'
  BY <1>3, <1>5, <1>6, <1>7, <1>8 DEF StartEvents
<1>10. /\ UNCHANGED <<config, open, day, startProc, beyond>>
       /\ booking' \in {"EXAM", "PRACTICE", None}
  BY DEF StartEvents, S!EndSession, S!Grade, S!Publish, S!Deadline, S!Book, StartsTyped
<1> QED
  BY <1>9, <1>10 DEF StartsTyped

\* A request ends a session it has found.
StartEnds(p) == S!ExpirePretest(p) \/ S!EndWrite(p)

LEMMA EndsKeep ==
  ASSUME StartsTyped, NEW p \in Request, StartEnds(p)
  PROVE  /\ StartsTyped' /\ Kept /\ UNCHANGED day
         /\ \E next \in S!Local : S!Goto(p, next)
<1> DEFINE x == startProc[p]
<1>1. x \in S!Local
  BY DEF StartsTyped
<1>2. PICK n \in Nat : Numbered(n)
  BY DEF StartsTyped
<1>3. DOMAIN rows = 1..n /\ rows \in [1..n -> S!Row]
  BY <1>2, NumberedIsNumber DEF Numbered
<1>4. \E passed : /\ rows' = [rows EXCEPT ![x.id] = S!Over(rows[x.id], passed)]
                  /\ x.id \in DOMAIN rows => passed \in BOOLEAN \cup {None}
  <2>1. CASE S!ExpirePretest(p)
    BY <2>1 DEF S!ExpirePretest
  <2>2. CASE S!EndWrite(p)
    <3>1. rows' = [rows EXCEPT ![x.id] = S!Over(rows[x.id], rows[x.id].passed)]
      BY <2>2 DEF S!EndWrite
    <3>2. x.id \in DOMAIN rows => rows[x.id].passed \in BOOLEAN \cup {None}
      BY <1>3 DEF S!Row
    <3> QED
      BY <3>1, <3>2
  <2> QED
    BY <2>1, <2>2 DEF StartEnds
<1>5. Kept /\ Numbered(n)'
  <2>1. PICK passed : /\ rows' = [rows EXCEPT ![x.id] = S!Over(rows[x.id], passed)]
                      /\ x.id \in DOMAIN rows => passed \in BOOLEAN \cup {None}
    BY <1>4
  <2> DEFINE row == S!Over(rows[x.id], passed)
  <2>2. x.id \in DOMAIN rows =>
          /\ row \in S!Row /\ row.exam = rows[x.id].exam /\ row.day = rows[x.id].day
          /\ row.pretest = rows[x.id].pretest
    BY <1>3, <2>1, OverIsRow
  <2>3. rows' = [rows EXCEPT ![x.id] = row]
    BY <2>1
  <2> HIDE DEF row, x
  <2> QED
    BY <1>2, <2>2, <2>3, RowChanges
<1>6. \E next \in S!Local : S!Goto(p, next)
  <2>1. CASE S!ExpirePretest(p)
    <3>1. x.config \in Configuration /\ x.day \in 0..MaxDay
      BY <1>1, <2>1, StartLocals DEF S!ExpirePretest
    <3>2. [pc |-> "count", config |-> x.config, day |-> x.day] \in S!Local
      BY <3>1 DEF S!Local
    <3> QED
      BY <2>1, <3>2 DEF S!ExpirePretest
  <2>2. CASE S!EndWrite(p)
    <3>1. x.exam \in S!Exam /\ x.booked \in BOOLEAN /\ x.next \in {"latest", "insert"}
      BY <1>1, <2>2, StartLocals DEF S!EndWrite
    <3>2. [pc |-> x.next, exam |-> x.exam, booked |-> x.booked] \in S!Local
      BY <3>1 DEF S!Local
    <3> QED
      BY <2>2, <3>2 DEF S!EndWrite
  <2> QED
    BY <2>1, <2>2 DEF StartEnds
<1>7. startProc' \in [Request -> S!Local]
  BY <1>6, StartMoves
<1>8. UNCHANGED <<config, open, booking, day>> /\ beyond' \in Nat
  <2>1. UNCHANGED <<config, open, booking, day>> /\ beyond' \in {0, beyond}
    BY Zenon DEF StartEnds, S!ExpirePretest, S!EndWrite
  <2> QED
    BY <2>1 DEF StartsTyped
<1> QED
  BY <1>5, <1>6, <1>7, <1>8 DEF StartsTyped

\* A session starts.
Started(n, exam, pretest, booked) ==
  /\ rows' \in [1..(n + 1) -> S!Row] /\ \A i \in 1..n : rows'[i] = rows[i]
  /\ rows'[n + 1].exam = exam /\ rows'[n + 1].pretest = pretest
  /\ rows'[n + 1].day = day /\ ~rows'[n + 1].published

LEMMA Inserts ==
  ASSUME StartsTyped, NEW n \in Nat, Numbered(n), NEW exam \in S!Exam \cup {None},
         NEW pretest \in BOOLEAN, NEW booked \in BOOLEAN, S!Insert(exam, pretest, booked)
  PROVE  Started(n, exam, pretest, booked)
<1> DEFINE row == [exam |-> exam, pretest |-> pretest, booked |-> booked, ended |-> FALSE,
                   late |-> FALSE, passed |-> None, published |-> FALSE, day |-> day]
<1>1. row \in S!Row
  BY DEF S!Row, StartsTyped
<1>2. rows' = [i \in 1..(n + 1) |-> IF i <= n THEN rows[i] ELSE row]
  BY NumberedIsNumber DEF S!Insert
<1>3. \A i \in 1..n : rows[i] \in S!Row
  BY DEF Numbered
<1>4. row.exam = exam /\ row.pretest = pretest /\ row.day = day /\ ~row.published
  OBVIOUS
<1> HIDE DEF row
<1>5. /\ rows' \in [1..(n + 1) -> S!Row] /\ \A i \in 1..n : rows'[i] = rows[i]
      /\ rows'[n + 1] = row
  BY <1>1, <1>2, <1>3
<1> QED
  BY <1>4, <1>5 DEF Started

LEMMA InsertsType ==
  ASSUME StartsTyped, NEW p \in Request, S!InsertPretest(p) \/ S!InsertSession(p)
  PROVE  /\ StartsTyped' /\ S!End(p) /\ UNCHANGED day
         /\ S!InsertPretest(p) => \E n \in Nat : /\ Numbered(n)
                                                 /\ Started(n, startProc[p].exam, TRUE, FALSE)
         /\ S!InsertSession(p) => \E n \in Nat : /\ Numbered(n)
              /\ Started(n, startProc[p].exam, FALSE, startProc[p].booked)
<1> DEFINE x == startProc[p]
<1>1. x \in S!Local
  BY DEF StartsTyped
<1>2. PICK n \in Nat : Numbered(n)
  BY DEF StartsTyped
<1>3. S!InsertPretest(p) => Started(n, x.exam, TRUE, FALSE)
  <2> SUFFICES ASSUME S!InsertPretest(p) PROVE Started(n, x.exam, TRUE, FALSE)
    OBVIOUS
  <2>1. x.exam \in S!Exam \cup {None}
    BY <1>1, StartLocals DEF S!InsertPretest, S!Exam
  <2> QED
    BY <1>2, <2>1, Inserts DEF S!InsertPretest
<1>4. S!InsertSession(p) => Started(n, x.exam, FALSE, x.booked)
  <2> SUFFICES ASSUME S!InsertSession(p) PROVE Started(n, x.exam, FALSE, x.booked)
    OBVIOUS
  <2>1. x.exam \in S!Exam \cup {None} /\ x.booked \in BOOLEAN
    BY <1>1, StartLocals DEF S!InsertSession
  <2> QED
    BY <1>2, <2>1, Inserts DEF S!InsertSession
<1>5. S!End(p) /\ UNCHANGED <<config, open, booking, day>> /\ beyond' \in Nat
  <2>1. S!End(p) /\ UNCHANGED <<config, open, booking, day>> /\ beyond' \in {beyond, beyond + 1}
    BY Zenon DEF S!InsertPretest, S!InsertSession
  <2> QED
    BY <2>1 DEF StartsTyped
<1>6. startProc' \in [Request -> S!Local]
  BY <1>5, StartMoves, StartIdle DEF S!End
<1>7. n < MaxSessions /\ n + 1 \in 0..MaxSessions
  <2>1. S!Number = n /\ n \in Nat /\ MaxSessions \in Nat
    BY <1>2, NumberedIsNumber, StartsAssumption DEF S!ConstantsAssumption
  <2>2. S!Number < MaxSessions
    BY Zenon DEF S!InsertPretest, S!InsertSession
  <2> QED
    BY <2>1, <2>2
<1>8. Numbered(n + 1)'
  BY <1>3, <1>4, <1>7 DEF Numbered, Started
<1>9. StartsTyped'
  <2>1. \E m \in Nat : Numbered(m)'
    BY <1>8
  <2>2. \E m \in Nat : (m \in 0..MaxSessions /\ rows' \in [1..m -> S!Row])
    BY <2>1 DEF Numbered
  <2> QED
    BY <1>5, <1>6, <2>2 DEF StartsTyped, Numbered
<1> QED
  BY <1>2, <1>3, <1>4, <1>5, <1>9

LEMMA StartsElse ==
  ASSUME StartsTyped,
         \/ \E p \in Request : S!ConfigWrite(p)
         \/ \E x \in S!Exam : S!OpenExam(x)
         \/ S!Midnight \/ UNCHANGED S!vars
  PROVE  StartsTyped' /\ UNCHANGED <<rows, beyond>>
<1>1. ASSUME NEW p \in Request, S!ConfigWrite(p) PROVE StartsTyped' /\ UNCHANGED <<rows, beyond>>
  <2>1. startProc' \in [Request -> S!Local]
    BY <1>1, StartMoves, StartIdle DEF S!ConfigWrite, S!End
  <2>2. startProc[p].config \in Configuration \cup {None}
    BY <1>1, StartLocals DEF S!ConfigWrite, StartsTyped
  <2>3. config' \in Configuration \cup {None} /\ UNCHANGED <<open, booking, rows, day, beyond>>
    BY <1>1, <2>2 DEF S!ConfigWrite
  <2> QED
    BY <2>1, <2>3 DEF StartsTyped, Numbered
<1>2. ASSUME NEW x \in S!Exam, S!OpenExam(x) PROVE StartsTyped' /\ UNCHANGED <<rows, beyond>>
  BY <1>2 DEF S!OpenExam, StartsTyped, Numbered
<1>3. ASSUME S!Midnight PROVE StartsTyped' /\ UNCHANGED <<rows, beyond>>
  <2>1. day' \in 0..MaxDay
    BY <1>3, StartsAssumption DEF S!Midnight, StartsTyped, S!ConstantsAssumption
  <2> QED
    BY <1>3, <2>1 DEF S!Midnight, StartsTyped, Numbered
<1>4. ASSUME UNCHANGED S!vars PROVE StartsTyped' /\ UNCHANGED <<rows, beyond>>
  BY <1>4 DEF S!vars, StartsTyped, Numbered
<1> QED
  BY <1>1, <1>2, <1>3, <1>4

\* What can happen.
LEMMA StartsCases ==
  ASSUME [S!Next]_S!vars
  PROVE  \/ \E p \in Request : StartReads(p) \/ StartEnds(p) \/ S!InsertPretest(p)
                               \/ S!InsertSession(p) \/ S!ConfigWrite(p)
         \/ StartEvents
         \/ \E x \in S!Exam : S!OpenExam(x)
         \/ S!Midnight \/ UNCHANGED S!vars
<1>1. ASSUME NEW p \in Request, S!Step(p)
      PROVE  StartReads(p) \/ StartEnds(p) \/ S!InsertPretest(p) \/ S!InsertSession(p)
             \/ S!ConfigWrite(p)
  BY <1>1 DEF S!Step, StartReads, StartEnds
<1> QED
  BY <1>1 DEF S!Next, StartEvents

LEMMA StartsTypes == S!Spec => []StartsTyped
<1>1. ASSUME S!Init PROVE StartsTyped
  <2>1. Numbered(0)
    BY <1>1, StartsAssumption DEF S!Init, Numbered, S!ConstantsAssumption
  <2>2. 0 \in 0..MaxDay
    BY StartsAssumption DEF S!ConstantsAssumption
  <2> QED
    BY <1>1, <2>1, <2>2, StartIdle DEF S!Init, StartsTyped
<1>2. ASSUME StartsTyped, [S!Next]_S!vars PROVE StartsTyped'
  BY <1>2, StartsCases, StartsRead, EndsKeep, InsertsType, EventsKeep, StartsElse
<1> QED
  BY <1>1, <1>2, PTL DEF S!Spec

-----------------------------------------------------------------------------
(* ExamAttempts: how many pretests there may be                             *)

\* Requests can be counted, and there are no more than all of them.
LEMMA RequestsCount ==
  /\ IsFiniteSet(Request) /\ Cardinality(Request) \in Nat
  /\ \A T \in SUBSET Request :
       /\ IsFiniteSet(T) /\ Cardinality(T) \in Nat /\ Cardinality(T) <= Cardinality(Request)
       /\ \A U \in SUBSET T : Cardinality(U) <= Cardinality(T)
       /\ \A p \in T : Cardinality(T \ {p}) = Cardinality(T) - 1
<1>1. IsFiniteSet(Request)
  BY StartsAssumption, SameCount DEF S!ConstantsAssumption
<1>2. \A T \in SUBSET Request : IsFiniteSet(T) /\ Cardinality(T) <= Cardinality(Request)
  BY <1>1, FS_Subset
<1>3. \A T \in SUBSET Request : \A U \in SUBSET T : Cardinality(U) <= Cardinality(T)
  BY <1>2, FS_Subset
<1>4. \A T \in SUBSET Request : \A p \in T : Cardinality(T \ {p}) = Cardinality(T) - 1
  BY <1>2, FS_RemoveElement
<1> QED
  BY <1>1, <1>2, <1>3, <1>4, FS_CardinalityType

LEMMA RowsCount ==
  ASSUME StartsTyped
  PROVE  \A T \in SUBSET DOMAIN rows : IsFiniteSet(T) /\ Cardinality(T) \in Nat
<1>1. PICK n \in Nat : Numbered(n)
  BY DEF StartsTyped
<1>2. IsFiniteSet(1..n) /\ DOMAIN rows = 1..n
  BY <1>1, NumberedIsNumber, FS_Interval
<1> QED
  BY <1>2, FS_Subset, FS_CardinalityType

\* Requests that will start a pretest on this day, having counted before, or
\* having begun on a day before.
Counted(x) == x.pc \in {"assign", "insertPretest"}
Looked(x, d) == Counted(x) \/ (x.pc \in {"find", "count", "expire"} /\ x.day # d)
Pending == {p \in Request : Looked(startProc[p], day)}
Locking == {p \in Request : Counted(startProc[p]) /\ startProc[p].config.lock}

Pretests(d) == {i \in DOMAIN rows : rows[i].pretest /\ rows[i].day = d}

\* The pretests of a day, with those to come, are within a configuration's limit
\* but for the requests that may have counted too early, all but one.
Allowed(d) == \E c \in Configuration :
  Cardinality(Pretests(d)) + (IF d = day THEN Cardinality(Pending) ELSE 0)
    <= c.max + Cardinality(Request) - 1

MayStart(x) == Counted(x) => x.config.max >= 1

LimitInv ==
  /\ \A p \in Request : MayStart(startProc[p])
  /\ \A i \in DOMAIN rows : rows[i].day <= day
  /\ \A d \in 0..MaxDay : Pretests(d) # {} => Allowed(d)

\* Steps that bring no request nearer to a pretest.
Tame(x, next) ==
  /\ Looked(next, day) => Looked(x, day)
  /\ Counted(next) => Counted(x) /\ next.config = x.config

LEMMA IdleIsTame == \A x : Tame(x, S!Idle)
  BY DEF Tame, Looked, Counted, S!Idle

LEMMA TameMoves ==
  ASSUME StartsTyped, NEW p \in Request, NEW next \in S!Local, S!Goto(p, next),
         Tame(startProc[p], next), UNCHANGED day
  PROVE  /\ Pending' \subseteq Pending /\ Locking' \subseteq Locking
         /\ LimitInv => (\A q \in Request : MayStart(startProc[q]))'
<1>1. /\ startProc' \in [Request -> S!Local] /\ startProc'[p] = next
      /\ \A q \in Request : q # p => startProc'[q] = startProc[q]
  BY StartMoves
<1>2. Pending' \subseteq Pending
  BY <1>1 DEF Pending, Tame, Looked, Counted
<1>3. Locking' \subseteq Locking
  BY <1>1 DEF Locking, Tame, Looked, Counted
<1>4. ASSUME LimitInv, NEW q \in Request PROVE MayStart(startProc[q])'
  BY <1>1, <1>4 DEF LimitInv, MayStart, Tame, Looked, Counted
<1> QED
  BY <1>2, <1>3, <1>4

LEMMA ReadsAreTame ==
  ASSUME StartsTyped, NEW p \in Request, NEW next \in S!Local, S!Goto(p, next),
         StartReads(p) \/ StartEnds(p)
  PROVE  S!CountPretests(p) \/ Tame(startProc[p], next)
<1>1. startProc'[p] = next
  BY StartMoves
<1>2. ASSUME \/ S!End(p)
             \/ \E pc \in {"saveConfig", "linked", "latest", "insert", "end"} :
                  \E rest : S!Goto(p, rest) /\ rest.pc = pc
      PROVE  Tame(startProc[p], next)
  <2>1. next.pc \in {"idle", "saveConfig", "linked", "latest", "insert", "end"}
    BY <1>1, <1>2, StartIdle DEF S!End, S!Goto, StartsTyped
  <2> QED
    BY <2>1 DEF Tame, Looked, Counted
<1>3. ASSUME \/ \E new \in Configuration \cup {None} : S!ConfigRead(p, new)
             \/ \E x \in S!Exam, walkIn \in BOOLEAN : S!StartBegin(p, x, walkIn)
      PROVE  Tame(startProc[p], next)
  <2>1. CASE \E new \in Configuration \cup {None} : S!ConfigRead(p, new)
    <3>1. PICK new : S!Goto(p, [pc |-> "saveConfig", config |-> new])
      BY <2>1 DEF S!ConfigRead
    <3>2. next = [pc |-> "saveConfig", config |-> new]
      BY <1>1, <3>1 DEF S!Goto, StartsTyped
    <3> QED
      BY <3>2 DEF Tame, Looked, Counted
  <2>2. CASE \E x \in S!Exam, walkIn \in BOOLEAN : S!StartBegin(p, x, walkIn)
    <3>1. PICK x \in S!Exam, walkIn \in BOOLEAN : S!StartBegin(p, x, walkIn)
      BY <2>2
    <3> DEFINE booked == x \in Practice /\ booking = "PRACTICE"
               at == IF booked THEN "linked" ELSE "latest"
    <3>3. S!Goto(p, [pc |-> at, exam |-> x, booked |-> booked])
      BY <3>1 DEF S!StartBegin
    <3>4. at \in {"linked", "latest"}
      OBVIOUS
    <3> HIDE DEF at, booked
    <3>2. next = [pc |-> at, exam |-> x, booked |-> booked] /\ at \in {"linked", "latest"}
      BY <1>1, <3>3, <3>4 DEF S!Goto, StartsTyped
    <3> QED
      BY <3>2 DEF Tame, Looked, Counted
  <2> QED
    BY <1>3, <2>1, <2>2
<1>4. ASSUME S!FindLinked(p) \/ S!FindLatest(p) \/ S!EndWrite(p) PROVE Tame(startProc[p], next)
  <2>1. startProc[p].pc \in {"linked", "latest", "end"} /\ startProc[p] \in S!Local
    BY <1>4 DEF S!FindLinked, S!FindLatest, S!EndWrite, StartsTyped
  <2>2. next.pc \in {"idle", "latest", "insert", "end"}
    <3>1. CASE S!FindLinked(p)
      <4> DEFINE L == [startProc[p] EXCEPT !.pc = "latest"]
      <4>1. L.pc = "latest"
        BY <2>1, <3>1, StartLocals DEF S!FindLinked
      <4>2. \/ S!Goto(p, S!Idle) \/ S!Goto(p, L)
            \/ \E i : S!Goto(p, [pc |-> "end", exam |-> startProc[p].exam,
                       booked |-> startProc[p].booked, id |-> i, next |-> "latest"])
        BY <3>1 DEF S!FindLinked, S!End, S!EndNext
      <4> HIDE DEF L
      <4>3. \/ next = S!Idle \/ next = L
            \/ \E i : next = [pc |-> "end", exam |-> startProc[p].exam,
                       booked |-> startProc[p].booked, id |-> i, next |-> "latest"]
        BY <1>1, <4>2 DEF S!Goto, StartsTyped
      <4> QED
        BY <4>1, <4>3, StartIdle
    <3>2. CASE S!FindLatest(p)
      BY <1>1, <3>2, StartIdle DEF S!FindLatest, S!Goto, S!End, S!EndNext, StartsTyped
    <3>3. CASE S!EndWrite(p)
      BY <1>1, <3>3, <2>1, StartLocals DEF S!EndWrite, S!Goto, StartsTyped
    <3> QED
      BY <1>4, <3>1, <3>2, <3>3
  <2> QED
    BY <2>2 DEF Tame, Looked, Counted
<1>5. ASSUME S!PretestBegin(p) PROVE Tame(startProc[p], next)
  <2>1. next.pc = "find" /\ next.day = day
    BY <1>1, <1>5 DEF S!PretestBegin, S!Goto, StartsTyped
  <2> QED
    BY <2>1 DEF Tame, Looked, Counted
<1>6. ASSUME S!FindPretest(p) PROVE Tame(startProc[p], next)
  <2>1. \/ next.pc = "idle"
        \/ next.pc \in {"count", "expire"} /\ next.day = startProc[p].day
    BY <1>1, <1>6, StartIdle DEF S!FindPretest, S!Goto, S!End, StartsTyped
  <2>2. startProc[p].pc = "find"
    BY <1>6 DEF S!FindPretest
  <2> QED
    BY <2>1, <2>2 DEF Tame, Looked, Counted
<1>7. ASSUME S!ExpirePretest(p) PROVE Tame(startProc[p], next)
  <2>1. next.pc = "count" /\ next.day = startProc[p].day /\ startProc[p].pc = "expire"
    BY <1>1, <1>7 DEF S!ExpirePretest, S!Goto, StartsTyped
  <2> QED
    BY <2>1 DEF Tame, Looked, Counted
<1>8. ASSUME S!AssignFromPool(p) \/ S!AssignFromBank(p) PROVE Tame(startProc[p], next)
  <2>1. startProc[p].pc = "assign"
    BY <1>8 DEF S!AssignFromPool, S!AssignFromBank
  <2>2. \/ S!Goto(p, S!Idle)
        \/ \E exam : S!Goto(p, [pc |-> "insertPretest", config |-> startProc[p].config,
                                exam |-> exam])
    BY <1>8 DEF S!AssignFromPool, S!AssignFromBank, S!Assign, S!End
  <2>3. \/ next = S!Idle
        \/ \E exam : next = [pc |-> "insertPretest", config |-> startProc[p].config,
                             exam |-> exam]
    BY <1>1, <2>2 DEF S!Goto, StartsTyped
  <2> QED
    BY <2>1, <2>3, StartIdle DEF Tame, Looked, Counted
<1>9. ASSUME S!Fail(p) PROVE Tame(startProc[p], next)
  BY <1>2, <1>9 DEF S!Fail
<1> QED
  BY <1>3, <1>4, <1>5, <1>6, <1>7, <1>8, <1>9 DEF StartReads, StartEnds

LEMMA KeptPretests ==
  ASSUME Kept
  PROVE  \A d : Pretests(d)' = Pretests(d)
<1> SUFFICES ASSUME NEW d PROVE Pretests(d)' = Pretests(d)
  OBVIOUS
<1> QED
  BY DEF Kept, Pretests

\* What keeps the sessions and brings no request nearer keeps within the limits.
LEMMA LimitsKept ==
  ASSUME StartsTyped, LimitInv, Kept, UNCHANGED day, Pending' \subseteq Pending,
         (\A q \in Request : MayStart(startProc[q]))'
  PROVE  LimitInv'
<1>1. \A i \in DOMAIN rows' : rows'[i].day <= day'
  BY DEF LimitInv, Kept
<1>2. Pending \subseteq Request
  BY DEF Pending
<1>3. Cardinality(Pending') <= Cardinality(Pending)
  BY <1>2, RequestsCount
<1>4. ASSUME NEW d \in 0..MaxDay, Pretests(d)' # {} PROVE Allowed(d)'
  <2>1. Pretests(d)' = Pretests(d)
    BY KeptPretests
  <2>2. Allowed(d)
    BY <1>4, <2>1 DEF LimitInv
  <2>3. PICK c \in Configuration :
          Cardinality(Pretests(d)) + (IF d = day THEN Cardinality(Pending) ELSE 0)
            <= c.max + Cardinality(Request) - 1
    BY <2>2 DEF Allowed
  <2>4. c.max \in Nat
    BY StartsAssumption DEF S!ConstantsAssumption
  <2>5. /\ Cardinality(Pending) \in Nat /\ Cardinality(Pending') \in Nat
        /\ Cardinality(Request) \in Nat
    BY <1>2, RequestsCount
  <2>6. Cardinality(Pretests(d)) \in Nat
    BY RowsCount DEF Pretests
  <2>7. Cardinality(Pretests(d)) + (IF d = day THEN Cardinality(Pending') ELSE 0)
          <= c.max + Cardinality(Request) - 1
    BY <1>3, <2>3, <2>4, <2>5, <2>6
  <2> QED
    BY <2>1, <2>7 DEF Allowed
<1> QED
  BY <1>1, <1>4 DEF LimitInv

\* A request that counts finds fewer pretests than its configuration allows.
LEMMA CountingIsLimited ==
  ASSUME StartsTyped, LimitInv, NEW p \in Request, S!CountPretests(p)
  PROVE  LimitInv'
<1> DEFINE x == startProc[p]
           next == [pc |-> "assign", config |-> x.config]
<1>1. x \in S!Local /\ x.pc = "count"
  BY DEF StartsTyped, S!CountPretests
<1>2. x.config \in Configuration /\ x.day \in 0..MaxDay
  BY <1>1, StartLocals
<1>3. UNCHANGED <<config, open, booking, rows, day, beyond>>
  BY Zenon DEF S!CountPretests, S!Reads
<1>4. Kept
  BY <1>3 DEF Kept
<1>5. CASE S!End(p)
  <2>1. S!Goto(p, S!Idle) /\ S!Idle \in S!Local
    BY <1>5, StartIdle DEF S!End
  <2>2. /\ Pending' \subseteq Pending
        /\ (\A q \in Request : MayStart(startProc[q]))'
    BY <1>3, <2>1, TameMoves, IdleIsTame
  <2> QED
    BY <1>3, <1>4, <2>2, LimitsKept
<1>6. CASE /\ S!Goto(p, next) /\ ~(S!Cardinality(S!Used(x.day)) >= x.config.max)
  <2>1. next \in S!Local /\ next.pc = "assign" /\ next.config = x.config
    BY <1>2 DEF S!Local
  <2> HIDE DEF next
  <2>2. /\ startProc'[p] = next
        /\ \A q \in Request : q # p => startProc'[q] = startProc[q]
    BY <1>6, <2>1, StartMoves
  <2>3. S!Used(x.day) = Pretests(x.day)
    BY DEF S!Used, Pretests
  <2>4. x.config.max \in Nat /\ Cardinality(Pretests(x.day)) \in Nat
    <3>1. Pretests(x.day) \subseteq DOMAIN rows
      BY DEF Pretests
    <3> QED
      BY <1>2, <3>1, RowsCount, StartsAssumption DEF S!ConstantsAssumption
  <2>5. Cardinality(Pretests(x.day)) < x.config.max
    BY <1>6, <2>3, <2>4, SameCount
  <2>6. \A q \in Request : MayStart(startProc'[q])
    <3>1. x.config.max >= 1
      BY <2>4, <2>5
    <3> QED
      BY <2>1, <2>2, <3>1 DEF LimitInv, MayStart
  <2>7. CASE x.day # day
    <3>1. Looked(x, day)
      BY <1>1, <2>7 DEF Looked
    <3>2. Pending' \subseteq Pending
      BY <1>3, <2>2, <3>1 DEF Pending
    <3> QED
      BY <1>3, <1>4, <2>6, <3>2, LimitsKept
  <2>8. CASE x.day = day
    <3>1. \A i \in DOMAIN rows' : rows'[i].day <= day'
      BY <1>3 DEF LimitInv
    <3>2. ASSUME NEW d \in 0..MaxDay, Pretests(d)' # {} PROVE Allowed(d)'
      <4>1. Pretests(d)' = Pretests(d)
        BY <1>4, KeptPretests
      <4>2. CASE d = day
        <5>1. Pending' \subseteq Request
          BY DEF Pending
        <5>2. /\ Cardinality(Pending') \in Nat /\ Cardinality(Request) \in Nat
              /\ Cardinality(Pending') <= Cardinality(Request)
          BY <5>1, RequestsCount
        <5>3. Cardinality(Pretests(d)) + Cardinality(Pending')
                <= x.config.max + Cardinality(Request) - 1
          BY <2>4, <2>5, <2>8, <4>2, <5>2
        <5> HIDE DEF x
        <5> QED
          BY <1>2, <1>3, <4>1, <4>2, <5>3 DEF Allowed
      <4>3. CASE d # day
        <5>1. Allowed(d)
          BY <3>2, <4>1 DEF LimitInv
        <5> QED
          BY <1>3, <4>1, <4>3, <5>1 DEF Allowed
      <4> QED
        BY <4>2, <4>3
    <3> QED
      BY <2>6, <3>1, <3>2 DEF LimitInv
  <2> QED
    BY <2>7, <2>8
<1> QED
  BY <1>5, <1>6, Zenon DEF S!CountPretests

\* The rows of a kind, before and after a session starts.
LEMMA StartedRows ==
  ASSUME StartsTyped, NEW n \in Nat, Numbered(n), NEW exam, NEW pretest \in BOOLEAN, NEW booked,
         Started(n, exam, pretest, booked)
  PROVE  /\ n + 1 \notin DOMAIN rows /\ DOMAIN rows' = 1..(n + 1) /\ DOMAIN rows = 1..n
         /\ \A d : Pretests(d)' =
              IF pretest /\ d = day THEN Pretests(d) \cup {n + 1} ELSE Pretests(d)
<1>1. DOMAIN rows = 1..n /\ n \in Nat
  BY NumberedIsNumber
<1>2. DOMAIN rows' = 1..(n + 1) /\ 1..(n + 1) = 1..n \cup {n + 1} /\ n + 1 \notin 1..n
  BY DEF Started
<1>3. ASSUME NEW d PROVE Pretests(d)' =
        IF pretest /\ d = day THEN Pretests(d) \cup {n + 1} ELSE Pretests(d)
  <2>1. Pretests(d)' = {i \in 1..(n + 1) : rows'[i].pretest /\ rows'[i].day = d}
    BY <1>2 DEF Pretests
  <2>2. Pretests(d) = {i \in 1..n : rows[i].pretest /\ rows[i].day = d}
    BY <1>1 DEF Pretests
  <2>3. \A i \in 1..n : rows'[i] = rows[i]
    BY DEF Started
  <2>4. (rows'[n + 1].pretest <=> pretest) /\ rows'[n + 1].day = day
    BY DEF Started
  <2> QED
    BY <1>2, <2>1, <2>2, <2>3, <2>4
<1> QED
  BY <1>1, <1>2, <1>3

\* A pretest that starts was pending.
LEMMA PretestsInserted ==
  ASSUME StartsTyped, LimitInv, NEW p \in Request, S!InsertPretest(p)
  PROVE  LimitInv'
<1> DEFINE x == startProc[p]
<1>1. x \in S!Local /\ x.pc = "insertPretest"
  BY DEF StartsTyped, S!InsertPretest
<1>2. x.config \in Configuration
  BY <1>1, StartLocals
<1>3. S!End(p) /\ UNCHANGED day
  BY InsertsType
<1>4. PICK n \in Nat : Numbered(n) /\ Started(n, x.exam, TRUE, FALSE)
  BY InsertsType
<1>5. /\ startProc'[p] = S!Idle /\ S!Idle.pc = "idle"
      /\ \A q \in Request : q # p => startProc'[q] = startProc[q]
  BY <1>3, StartMoves, StartIdle DEF S!End
<1>6. (\A q \in Request : MayStart(startProc[q]))'
  BY <1>5 DEF LimitInv, MayStart, Counted
<1>7. DOMAIN rows' = 1..(n + 1) /\ DOMAIN rows = 1..n /\ n + 1 \notin DOMAIN rows
  BY <1>4, StartedRows
<1>8. \A i \in DOMAIN rows' : rows'[i].day <= day'
  <2>1. \A i \in 1..n : rows'[i] = rows[i] /\ rows[i].day <= day
    BY <1>4, <1>7 DEF Started, LimitInv
  <2>2. rows'[n + 1].day = day /\ day \in Nat
    BY <1>4, StartsAssumption DEF Started, StartsTyped, S!ConstantsAssumption
  <2>3. \A i \in 1..(n + 1) : i \in 1..n \/ i = n + 1
    OBVIOUS
  <2>4. day <= day
    BY <2>2
  <2> QED
    BY <1>3, <1>7, <2>1, <2>2, <2>3, <2>4
<1>9. /\ Pending' = Pending \ {p} /\ p \in Pending /\ Pending \subseteq Request
  BY <1>1, <1>3, <1>5 DEF Pending, Looked, Counted
<1>10. /\ Cardinality(Pending') = Cardinality(Pending) - 1
       /\ Cardinality(Pending) \in Nat /\ Cardinality(Request) \in Nat
       /\ Cardinality(Pending) <= Cardinality(Request)
  BY <1>9, RequestsCount
<1>11. \A c \in Configuration : c.max \in Nat
  BY StartsAssumption DEF S!ConstantsAssumption
<1>12. ASSUME NEW d \in 0..MaxDay, Pretests(d)' # {} PROVE Allowed(d)'
  <2>1. CASE d # day
    <3>1. Pretests(d)' = Pretests(d)
      BY <1>4, <2>1, StartedRows
    <3>2. Allowed(d)
      BY <1>12, <3>1 DEF LimitInv
    <3> QED
      BY <1>3, <2>1, <3>1, <3>2 DEF Allowed
  <2>2. CASE d = day
    <3>1. Pretests(d)' = Pretests(d) \cup {n + 1} /\ n + 1 \notin Pretests(d)
      BY <1>4, <1>7, <2>2, StartedRows DEF Pretests
    <3>2. IsFiniteSet(Pretests(d)) /\ Cardinality(Pretests(d)) \in Nat
      BY RowsCount DEF Pretests
    <3>3. Cardinality(Pretests(d)') = Cardinality(Pretests(d)) + 1
      BY <3>1, <3>2, FS_AddElement
    <3>4. CASE Pretests(d) = {}
      <4>1. Cardinality(Pretests(d)) = 0
        BY <3>4, FS_EmptySet
      <4>2. x.config.max >= 1
        BY <1>1 DEF LimitInv, MayStart, Counted
      <4>3. x.config.max \in Nat
        BY <1>2, <1>11
      <4>4. Cardinality(Pretests(d)') + Cardinality(Pending')
              <= x.config.max + Cardinality(Request) - 1
        BY <1>10, <3>3, <4>1, <4>2, <4>3
      <4> HIDE DEF x
      <4> QED
        BY <1>2, <1>3, <2>2, <4>4 DEF Allowed
    <3>5. CASE Pretests(d) # {}
      <4>1. PICK c \in Configuration : Cardinality(Pretests(d)) + Cardinality(Pending)
                                         <= c.max + Cardinality(Request) - 1
        BY <2>2, <3>5 DEF LimitInv, Allowed
      <4>2. Cardinality(Pretests(d)') + Cardinality(Pending')
              <= c.max + Cardinality(Request) - 1
        BY <1>10, <1>11, <3>2, <3>3, <4>1
      <4> QED
        BY <1>3, <2>2, <4>2 DEF Allowed
    <3> QED
      BY <3>4, <3>5
  <2> QED
    BY <2>1, <2>2
<1> QED
  BY <1>6, <1>8, <1>12 DEF LimitInv

LEMMA SessionsInserted ==
  ASSUME StartsTyped, LimitInv, NEW p \in Request, S!InsertSession(p)
  PROVE  LimitInv'
<1> DEFINE x == startProc[p]
<1>1. x \in S!Local /\ x.pc = "insert"
  BY DEF StartsTyped, S!InsertSession
<1>3. S!End(p) /\ UNCHANGED day
  BY InsertsType
<1>4. PICK n \in Nat : Numbered(n) /\ Started(n, x.exam, FALSE, x.booked)
  BY InsertsType
<1>5. /\ startProc'[p] = S!Idle /\ S!Idle.pc = "idle"
      /\ \A q \in Request : q # p => startProc'[q] = startProc[q]
  BY <1>3, StartMoves, StartIdle DEF S!End
<1>6. (\A q \in Request : MayStart(startProc[q]))'
  BY <1>5 DEF LimitInv, MayStart, Counted
<1>7. DOMAIN rows' = 1..(n + 1) /\ DOMAIN rows = 1..n /\ \A d : Pretests(d)' = Pretests(d)
  BY <1>4, StartedRows
<1>8. \A i \in DOMAIN rows' : rows'[i].day <= day'
  <2>1. \A i \in 1..n : rows'[i] = rows[i] /\ rows[i].day <= day
    BY <1>4, <1>7 DEF Started, LimitInv
  <2>2. rows'[n + 1].day = day /\ day \in Nat
    BY <1>4, StartsAssumption DEF Started, StartsTyped, S!ConstantsAssumption
  <2>3. \A i \in 1..(n + 1) : i \in 1..n \/ i = n + 1
    OBVIOUS
  <2>4. day <= day
    BY <2>2
  <2> QED
    BY <1>3, <1>7, <2>1, <2>2, <2>3, <2>4
<1>9. Pending' = Pending
  BY <1>1, <1>3, <1>5 DEF Pending, Looked, Counted
<1>10. \A d \in 0..MaxDay : Pretests(d)' # {} => Allowed(d)'
  BY <1>3, <1>7, <1>9 DEF LimitInv, Allowed
<1> QED
  BY <1>6, <1>8, <1>10 DEF LimitInv

\* No pretest has started on a day that begins.
LEMMA DaysBegin ==
  ASSUME StartsTyped, LimitInv, S!Midnight
  PROVE  LimitInv'
<1>1. day' = day + 1 /\ UNCHANGED <<rows, startProc>>
  BY DEF S!Midnight
<1>2. day \in Nat /\ \A i \in DOMAIN rows : rows[i].day \in Nat /\ rows[i].day <= day
  <2>1. PICK n \in Nat : Numbered(n)
    BY DEF StartsTyped
  <2>2. \A i \in DOMAIN rows : rows[i] \in S!Row
    BY <2>1, NumberedIsNumber DEF Numbered
  <2>3. \A i \in DOMAIN rows : rows[i].day \in 0..MaxDay
    BY <2>2 DEF S!Row
  <2> QED
    BY <2>3, StartsAssumption DEF StartsTyped, LimitInv, S!ConstantsAssumption
<1>3. \A q \in Request : MayStart(startProc'[q])
  BY <1>1 DEF LimitInv
<1>4. \A i \in DOMAIN rows' : rows'[i].day <= day' /\ rows'[i].day # day'
  BY <1>1, <1>2
<1>5. \A d : Pretests(d)' = Pretests(d)
  BY <1>1 DEF Pretests
<1>6. Pretests(day') = {}
  BY <1>1, <1>4 DEF Pretests
<1>7. ASSUME NEW d \in 0..MaxDay, Pretests(d)' # {} PROVE Allowed(d)'
  <2>1. Allowed(d) /\ d # day'
    BY <1>5, <1>6, <1>7 DEF LimitInv
  <2>2. PICK c \in Configuration :
          Cardinality(Pretests(d)) + (IF d = day THEN Cardinality(Pending) ELSE 0)
            <= c.max + Cardinality(Request) - 1
    BY <2>1 DEF Allowed
  <2>3. /\ Cardinality(Pretests(d)) \in Nat /\ Cardinality(Pending) \in Nat
        /\ Cardinality(Request) \in Nat /\ c.max \in Nat
    <3>1. Pending \subseteq Request /\ Pretests(d) \subseteq DOMAIN rows
      BY DEF Pending, Pretests
    <3> QED
      BY <3>1, RequestsCount, RowsCount, StartsAssumption DEF S!ConstantsAssumption
  <2>4. Cardinality(Pretests(d)) + 0 <= c.max + Cardinality(Request) - 1
    BY <2>2, <2>3
  <2> QED
    BY <1>5, <2>1, <2>4 DEF Allowed
<1> QED
  BY <1>3, <1>4, <1>7 DEF LimitInv

LEMMA LimitStep == ASSUME StartsTyped, LimitInv, [S!Next]_S!vars PROVE LimitInv'
<1>1. ASSUME NEW p \in Request, StartReads(p) \/ StartEnds(p) PROVE LimitInv'
  <2>1. Kept /\ UNCHANGED day /\ \E next \in S!Local : S!Goto(p, next)
    <3>1. CASE StartReads(p)
      BY <3>1, StartsRead DEF Kept
    <3>2. CASE StartEnds(p)
      BY <3>2, EndsKeep
    <3> QED
      BY <1>1, <3>1, <3>2
  <2>2. PICK next \in S!Local : S!Goto(p, next)
    BY <2>1
  <2>3. CASE Tame(startProc[p], next)
    BY <2>1, <2>2, <2>3, TameMoves, LimitsKept
  <2>4. CASE S!CountPretests(p)
    BY <2>4, CountingIsLimited
  <2> QED
    BY <1>1, <2>2, <2>3, <2>4, ReadsAreTame
<1>2. ASSUME NEW p \in Request, S!ConfigWrite(p) PROVE LimitInv'
  <2>1. S!Goto(p, S!Idle) /\ UNCHANGED <<rows, day>>
    BY <1>2 DEF S!ConfigWrite, S!End
  <2> QED
    BY <2>1, StartIdle, IdleIsTame, TameMoves, LimitsKept DEF Kept
<1>3. CASE StartEvents
  <2>1. Kept /\ UNCHANGED <<day, startProc>>
    BY <1>3, EventsKeep
  <2>2. Pending' \subseteq Pending /\ (\A q \in Request : MayStart(startProc[q]))'
    BY <2>1 DEF Pending, LimitInv
  <2> QED
    BY <2>1, <2>2, LimitsKept
<1>4. CASE UNCHANGED <<rows, day, startProc>>
  <2>1. Pending' \subseteq Pending /\ (\A q \in Request : MayStart(startProc[q]))' /\ Kept
    BY <1>4 DEF Pending, LimitInv, Kept
  <2> QED
    BY <1>4, <2>1, LimitsKept
<1>5. ASSUME NEW x \in S!Exam, S!OpenExam(x) PROVE LimitInv'
  BY <1>4, <1>5 DEF S!OpenExam
<1>6. CASE UNCHANGED S!vars
  BY <1>4, <1>6 DEF S!vars
<1> QED
  BY <1>1, <1>2, <1>3, <1>5, <1>6, StartsCases, PretestsInserted, SessionsInserted, DaysBegin

-----------------------------------------------------------------------------
(* ExamAttempts: pretests after a pass                                      *)

\* A published result is of a session that is over.  While no pass is published
\* none has been started beyond one, and each started beyond one had looked.
PassInv ==
  /\ \A i \in DOMAIN rows : rows[i].published => rows[i].ended
  /\ S!Passes = {} => beyond = 0
  /\ beyond + Cardinality(Locking) <= Cardinality(Request)

\* What leaves a pass a pass.
PassesStay ==
  /\ \A i \in DOMAIN rows' : rows'[i].published => rows'[i].ended
  /\ S!Passes' = {} => S!Passes = {}

LEMMA PassKept ==
  ASSUME StartsTyped, PassInv, PassesStay, UNCHANGED beyond, Locking' \subseteq Locking
  PROVE  PassInv'
<1>1. Locking \subseteq Request
  BY DEF Locking
<1>2. Cardinality(Locking') <= Cardinality(Locking)
  BY <1>1, RequestsCount
<1>3. /\ Cardinality(Locking') \in Nat /\ Cardinality(Locking) \in Nat
      /\ Cardinality(Request) \in Nat /\ beyond \in Nat
  BY <1>1, RequestsCount DEF StartsTyped
<1>4. beyond' + Cardinality(Locking') <= Cardinality(Request)
  BY <1>2, <1>3 DEF PassInv
<1>5. Cardinality(Locking)' = Cardinality(Locking')
  OBVIOUS
<1> QED
  BY <1>4, <1>5 DEF PassInv, PassesStay

LEMMA RowsSamePass ==
  ASSUME StartsTyped, PassInv, UNCHANGED rows
  PROVE  PassesStay
  BY DEF PassInv, PassesStay, S!Passes

\* A row is written: a result that is published stays what it is.
LEMMA PassesWritten ==
  ASSUME StartsTyped, PassInv, NEW i \in DOMAIN rows, NEW row, rows' = [rows EXCEPT ![i] = row],
         row.published => row.ended, rows[i].published => row.published,
         row.pretest = rows[i].pretest,
         rows[i].published /\ rows[i].passed = TRUE => row.passed = TRUE
  PROVE  PassesStay
<1>1. PICK n \in Nat : Numbered(n)
  BY DEF StartsTyped
<1>2. /\ DOMAIN rows' = DOMAIN rows /\ rows'[i] = row
      /\ \A j \in DOMAIN rows : j # i => rows'[j] = rows[j]
  BY <1>1 DEF Numbered
<1>3. \A j \in DOMAIN rows' : rows'[j].published => rows'[j].ended
  BY <1>2 DEF PassInv
<1>4. \A j \in S!Passes : j \in S!Passes'
  BY <1>2 DEF S!Passes
<1> QED
  BY <1>3, <1>4 DEF PassesStay

LEMMA PassEvents ==
  ASSUME StartsTyped, PassInv, StartEvents
  PROVE  PassesStay
<1>1. PICK n \in Nat : Numbered(n)
  BY DEF StartsTyped
<1>2. DOMAIN rows = 1..n /\ \A i \in DOMAIN rows : rows[i] \in S!Row
  BY <1>1, NumberedIsNumber DEF Numbered
<1>3. ASSUME NEW i \in S!Id, NEW passed \in BOOLEAN \cup {None}, S!EndSession(i, passed)
      PROVE  PassesStay
  <2> DEFINE row == S!Over(rows[i], passed)
  <2>1. i \in DOMAIN rows /\ rows' = [rows EXCEPT ![i] = row] /\ ~rows[i].ended
    BY <1>3 DEF S!EndSession
  <2>2. ~rows[i].published
    BY <2>1 DEF PassInv
  <2>3. row.pretest = rows[i].pretest /\ row.ended
    BY <1>2, <2>1, OverIsRow
  <2> HIDE DEF row
  <2> QED
    BY <2>1, <2>2, <2>3, PassesWritten
<1>4. ASSUME NEW i \in S!Id, NEW passed \in BOOLEAN, S!Grade(i, passed) PROVE PassesStay
  <2> DEFINE row == [rows[i] EXCEPT !.passed = passed]
  <2>1. i \in DOMAIN rows /\ rows' = [rows EXCEPT ![i] = row] /\ rows[i].ended /\ ~rows[i].published
    BY <1>4 DEF S!Grade
  <2>2. row.pretest = rows[i].pretest /\ row.ended = rows[i].ended
    BY <1>2, <2>1 DEF S!Row
  <2> HIDE DEF row
  <2> QED
    BY <2>1, <2>2, PassesWritten
<1>5. ASSUME NEW i \in S!Id, S!Publish(i) PROVE PassesStay
  <2> DEFINE row == [rows[i] EXCEPT !.published = TRUE]
  <2>1. i \in DOMAIN rows /\ rows' = [rows EXCEPT ![i] = row] /\ rows[i].ended
    BY <1>5 DEF S!Publish
  <2>2. /\ row.pretest = rows[i].pretest /\ row.ended = rows[i].ended /\ row.published
        /\ row.passed = rows[i].passed
    BY <1>2, <2>1 DEF S!Row
  <2> HIDE DEF row
  <2> QED
    BY <2>1, <2>2, PassesWritten
<1>6. ASSUME NEW i \in S!Id, NEW late \in BOOLEAN, S!Deadline(i, late) PROVE PassesStay
  <2> DEFINE row == [rows[i] EXCEPT !.late = late]
  <2>1. i \in DOMAIN rows /\ rows' = [rows EXCEPT ![i] = row]
    BY <1>6 DEF S!Deadline
  <2>2. /\ row.pretest = rows[i].pretest /\ row.ended = rows[i].ended
        /\ row.published = rows[i].published /\ row.passed = rows[i].passed
    BY <1>2, <2>1 DEF S!Row
  <2>3. rows[i].published => rows[i].ended
    BY <2>1 DEF PassInv
  <2> HIDE DEF row
  <2> QED
    BY <2>1, <2>2, <2>3, PassesWritten
<1>7. ASSUME NEW type, S!Book(type) PROVE PassesStay
  <2>1. rows' = [i \in DOMAIN rows |-> [rows[i] EXCEPT !.booked = FALSE]]
    BY <1>7 DEF S!Book
  <2>2. \A row \in S!Row : LET free == [row EXCEPT !.booked = FALSE] IN
          /\ free.pretest = row.pretest /\ free.ended = row.ended
          /\ free.published = row.published /\ free.passed = row.passed
    BY DEF S!Row
  <2>3. /\ DOMAIN rows' = DOMAIN rows
        /\ \A i \in DOMAIN rows :
             /\ rows'[i].pretest = rows[i].pretest /\ rows'[i].ended = rows[i].ended
             /\ rows'[i].published = rows[i].published /\ rows'[i].passed = rows[i].passed
    BY <1>2, <2>1, <2>2
  <2>4. \A i \in S!Passes : i \in S!Passes'
    BY <2>3 DEF S!Passes
  <2> QED
    BY <2>3, <2>4 DEF PassesStay, PassInv
<1> QED
  BY <1>3, <1>4, <1>5, <1>6, <1>7 DEF StartEvents

\* The only write that takes a pass away is the end of a session found late.
LEMMA PassExpires ==
  ASSUME StartsTyped, PassInv, NEW p \in Request, S!ExpirePretest(p)
  PROVE  PassInv'
<1> DEFINE i == startProc[p].id
<1>1. PICK n \in Nat : Numbered(n)
  BY DEF StartsTyped
<1>2. DOMAIN rows = 1..n /\ \A j \in DOMAIN rows : rows[j] \in S!Row
  BY <1>1, NumberedIsNumber DEF Numbered
<1>3. /\ rows' = [rows EXCEPT ![i] = S!Over(rows[i], FALSE)]
      /\ beyond' = IF S!Passes \subseteq {i} THEN 0 ELSE beyond
      /\ UNCHANGED day
  BY DEF S!ExpirePretest
<1>4. PICK next \in S!Local : S!Goto(p, next)
  BY EndsKeep DEF StartEnds
<1>5. Locking' \subseteq Locking
  <2>1. ~S!CountPretests(p)
    BY DEF S!CountPretests, S!ExpirePretest
  <2>2. Tame(startProc[p], next)
    BY <1>4, <2>1, ReadsAreTame DEF StartEnds
  <2> QED
    BY <1>3, <1>4, <2>2, TameMoves
<1>6. DOMAIN rows' = DOMAIN rows /\ \A j \in DOMAIN rows : j # i => rows'[j] = rows[j]
  BY <1>3
<1>7. i \in DOMAIN rows => rows'[i].ended /\ rows'[i].passed = FALSE
  BY <1>2, <1>3, OverIsRow
<1>8. \A j \in DOMAIN rows' : rows'[j].published => rows'[j].ended
  BY <1>6, <1>7 DEF PassInv
<1>9. S!Passes \ {i} \subseteq S!Passes'
  BY <1>6 DEF S!Passes
<1>10. S!Passes' = {} => beyond' = 0
  BY <1>3, <1>9
<1>11. beyond' <= beyond /\ beyond' \in Nat /\ beyond \in Nat
  BY <1>3 DEF StartsTyped
<1>12. Locking \subseteq Request
  BY DEF Locking
<1>13. /\ Cardinality(Locking') <= Cardinality(Locking) /\ Cardinality(Locking') \in Nat
       /\ Cardinality(Locking) \in Nat /\ Cardinality(Request) \in Nat
  BY <1>5, <1>12, RequestsCount
<1>14. beyond' + Cardinality(Locking') <= Cardinality(Request)
  BY <1>11, <1>13 DEF PassInv
<1> QED
  BY <1>8, <1>10, <1>14 DEF PassInv

LEMMA PassEnds ==
  ASSUME StartsTyped, PassInv, NEW p \in Request, S!EndWrite(p)
  PROVE  PassesStay
<1> DEFINE i == startProc[p].id
           row == S!Over(rows[i], rows[i].passed)
<1>1. PICK n \in Nat : Numbered(n)
  BY DEF StartsTyped
<1>2. DOMAIN rows = 1..n /\ \A j \in DOMAIN rows : rows[j] \in S!Row
  BY <1>1, NumberedIsNumber DEF Numbered
<1>3. rows' = [rows EXCEPT ![i] = row]
  BY DEF S!EndWrite
<1>4. CASE i \in DOMAIN rows
  <2>1. rows[i].passed \in BOOLEAN \cup {None}
    BY <1>2, <1>4 DEF S!Row
  <2>2. /\ row.pretest = rows[i].pretest /\ row.ended /\ row.published = rows[i].published
        /\ row.passed = rows[i].passed
    BY <1>2, <1>4, <2>1, OverIsRow
  <2> HIDE DEF row, i
  <2> QED
    BY <1>3, <1>4, <2>2, PassesWritten
<1>5. CASE i \notin DOMAIN rows
  <2>1. UNCHANGED rows
    BY <1>1, <1>2, <1>3, <1>5 DEF Numbered
  <2> QED
    BY <2>1, RowsSamePass
<1> QED
  BY <1>4, <1>5

\* A session that starts is neither published nor a pass.
LEMMA PassStarts ==
  ASSUME StartsTyped, PassInv, NEW n \in Nat, Numbered(n), NEW exam, NEW pretest, NEW booked,
         Started(n, exam, pretest, booked)
  PROVE  PassesStay /\ S!Passes' = S!Passes
<1>1. DOMAIN rows = 1..n
  BY NumberedIsNumber
<1>2. /\ DOMAIN rows' = 1..n \cup {n + 1} /\ \A i \in 1..n : rows'[i] = rows[i]
      /\ ~rows'[n + 1].published
  BY DEF Started
<1>3. \A i \in DOMAIN rows' : rows'[i].published => rows'[i].ended
  BY <1>1, <1>2 DEF PassInv
<1>4. S!Passes' = S!Passes
  BY <1>1, <1>2 DEF S!Passes
<1> QED
  BY <1>3, <1>4 DEF PassesStay

LEMMA PassInserts ==
  ASSUME StartsTyped, PassInv, NEW p \in Request, S!InsertPretest(p)
  PROVE  PassInv'
<1> DEFINE x == startProc[p]
<1>1. x \in S!Local /\ x.pc = "insertPretest"
  BY DEF StartsTyped, S!InsertPretest
<1>2. S!End(p)
  BY InsertsType
<1>3. PICK n \in Nat : Numbered(n) /\ Started(n, x.exam, TRUE, FALSE)
  BY InsertsType
<1>4. PassesStay /\ S!Passes' = S!Passes
  BY <1>3, PassStarts
<1>5. /\ startProc'[p] = S!Idle /\ S!Idle.pc = "idle"
      /\ \A q \in Request : q # p => startProc'[q] = startProc[q]
  BY <1>2, StartMoves, StartIdle DEF S!End
<1>6. beyond' = IF x.config.lock /\ S!Passes # {} THEN beyond + 1 ELSE beyond
  BY DEF S!InsertPretest
<1>7. CASE x.config.lock /\ S!Passes # {}
  <2>1. Locking' = Locking \ {p} /\ p \in Locking /\ Locking \subseteq Request
    BY <1>1, <1>5, <1>7 DEF Locking, Counted
  <2>2. /\ Cardinality(Locking') = Cardinality(Locking) - 1 /\ Cardinality(Locking) \in Nat
        /\ Cardinality(Request) \in Nat /\ beyond \in Nat
    BY <2>1, RequestsCount DEF StartsTyped
  <2>3. beyond' + Cardinality(Locking') <= Cardinality(Request)
    BY <1>6, <1>7, <2>2 DEF PassInv
  <2> QED
    BY <1>4, <1>7, <2>3 DEF PassInv, PassesStay
<1>8. CASE ~(x.config.lock /\ S!Passes # {})
  <2>1. Locking' \subseteq Locking
    BY <1>5 DEF Locking, Counted
  <2>2. UNCHANGED beyond
    BY <1>6, <1>8
  <2> QED
    BY <1>4, <2>1, <2>2, PassKept
<1> QED
  BY <1>7, <1>8

\* A request that counts has looked for a pass, if its configuration locks.
LEMMA PassCounts ==
  ASSUME StartsTyped, PassInv, NEW p \in Request, S!CountPretests(p)
  PROVE  PassInv'
<1> DEFINE x == startProc[p]
           next == [pc |-> "assign", config |-> x.config]
<1>1. x \in S!Local /\ x.pc = "count"
  BY DEF StartsTyped, S!CountPretests
<1>2. x.config \in Configuration
  BY <1>1, StartLocals
<1>3. UNCHANGED <<rows, day, beyond>>
  BY Zenon DEF S!CountPretests, S!Reads
<1>4. PassesStay
  BY <1>3, RowsSamePass
<1>5. CASE S!End(p)
  <2>1. S!Goto(p, S!Idle) /\ S!Idle \in S!Local
    BY <1>5, StartIdle DEF S!End
  <2>2. Locking' \subseteq Locking
    BY <1>3, <2>1, TameMoves, IdleIsTame
  <2> QED
    BY <1>3, <1>4, <2>2, PassKept
<1>6. CASE S!Goto(p, next) /\ ~(x.config.lock /\ S!Passes # {})
  <2>1. next \in S!Local /\ next.config = x.config
    BY <1>2 DEF S!Local
  <2> HIDE DEF next
  <2>2. startProc'[p] = next /\ \A q \in Request : q # p => startProc'[q] = startProc[q]
    BY <1>6, <2>1, StartMoves
  <2>3. CASE x.config.lock
    <3>1. beyond' = 0 /\ Locking' \subseteq Request
      BY <1>3, <1>6, <2>3 DEF PassInv, Locking
    <3>2. Cardinality(Locking') \in Nat /\ Cardinality(Locking') <= Cardinality(Request)
      BY <3>1, RequestsCount
    <3>3. beyond' + Cardinality(Locking') <= Cardinality(Request)
      BY <3>1, <3>2
    <3> QED
      BY <1>4, <3>1, <3>3 DEF PassInv, PassesStay
  <2>4. CASE ~x.config.lock
    <3>1. Locking' \subseteq Locking
      BY <2>1, <2>2, <2>4 DEF Locking, Counted
    <3> QED
      BY <1>3, <1>4, <3>1, PassKept
  <2> QED
    BY <2>3, <2>4
<1> QED
  BY <1>5, <1>6, Zenon DEF S!CountPretests

LEMMA PassStep == ASSUME StartsTyped, PassInv, [S!Next]_S!vars PROVE PassInv'
<1>1. ASSUME NEW p \in Request, StartReads(p) PROVE PassInv'
  <2>1. UNCHANGED <<rows, day, beyond>> /\ \E next \in S!Local : S!Goto(p, next)
    BY <1>1, StartsRead
  <2>2. PICK next \in S!Local : S!Goto(p, next)
    BY <2>1
  <2>3. CASE Tame(startProc[p], next)
    BY <2>1, <2>2, <2>3, TameMoves, RowsSamePass, PassKept
  <2>4. CASE S!CountPretests(p)
    BY <2>4, PassCounts
  <2> QED
    BY <1>1, <2>2, <2>3, <2>4, ReadsAreTame
<1>2. ASSUME NEW p \in Request, S!EndWrite(p) PROVE PassInv'
  <2>1. UNCHANGED <<day, beyond>> /\ \E next \in S!Local : S!Goto(p, next)
    BY <1>2, EndsKeep DEF StartEnds, S!EndWrite
  <2>2. PICK next \in S!Local : S!Goto(p, next)
    BY <2>1
  <2>3. ~S!CountPretests(p)
    BY <1>2 DEF S!CountPretests, S!EndWrite
  <2>4. Tame(startProc[p], next)
    BY <1>2, <2>2, <2>3, ReadsAreTame DEF StartEnds
  <2> QED
    BY <1>2, <2>1, <2>2, <2>4, TameMoves, PassEnds, PassKept
<1>3. ASSUME NEW p \in Request, S!InsertSession(p) PROVE PassInv'
  <2>1. PICK n \in Nat : Numbered(n) /\ Started(n, startProc[p].exam, FALSE, startProc[p].booked)
    BY <1>3, InsertsType
  <2>2. PassesStay
    BY <2>1, PassStarts
  <2>3. S!Goto(p, S!Idle) /\ UNCHANGED <<day, beyond>>
    BY <1>3 DEF S!InsertSession, S!End
  <2> QED
    BY <2>2, <2>3, StartIdle, IdleIsTame, TameMoves, PassKept
<1>4. ASSUME NEW p \in Request, S!ConfigWrite(p) PROVE PassInv'
  <2>1. S!Goto(p, S!Idle) /\ UNCHANGED <<rows, day, beyond>>
    BY <1>4 DEF S!ConfigWrite, S!End
  <2> QED
    BY <2>1, StartIdle, IdleIsTame, TameMoves, RowsSamePass, PassKept
<1>5. CASE StartEvents
  <2>1. UNCHANGED <<startProc, beyond>>
    BY <1>5, EventsKeep
  <2>2. Locking' \subseteq Locking
    BY <2>1 DEF Locking
  <2> QED
    BY <1>5, <2>1, <2>2, PassEvents, PassKept
<1>6. CASE UNCHANGED <<rows, startProc, beyond>>
  <2>1. Locking' \subseteq Locking
    BY <1>6 DEF Locking
  <2> QED
    BY <1>6, <2>1, RowsSamePass, PassKept
<1>7. ASSUME NEW x \in S!Exam, S!OpenExam(x) PROVE PassInv'
  BY <1>6, <1>7 DEF S!OpenExam
<1>8. CASE S!Midnight \/ UNCHANGED S!vars
  BY <1>6, <1>8 DEF S!Midnight, S!vars
<1> QED
  BY <1>1, <1>2, <1>3, <1>4, <1>5, <1>7, <1>8, StartsCases, PassExpires, PassInserts
  DEF StartEnds

LEMMA LimitStarts == ASSUME S!Init PROVE LimitInv /\ PassInv
<1>1. DOMAIN rows = {} /\ day = 0 /\ beyond = 0 /\ \A p \in Request : startProc[p] = S!Idle
  BY DEF S!Init
<1>2. Locking = {}
  BY <1>1, StartIdle DEF Locking, Counted
<1>3. Cardinality(Locking) = 0
  BY <1>2, FS_EmptySet
<1>4. \A d : Pretests(d) = {}
  BY <1>1 DEF Pretests
<1>5. LimitInv
  BY <1>1, <1>4, StartIdle DEF LimitInv, MayStart, Counted
<1>6. PassInv
  BY <1>1, <1>3, RequestsCount DEF PassInv
<1> QED
  BY <1>5, <1>6

(***************************************************************************)
(* startAutoPretestSession: on no day do more pretests start than the most *)
(* a saved configuration allows, but for the requests under way, all but   *)
(* one of them; and after a pass is published with a configuration that    *)
(* locks, only the requests that had looked before start one, once each.   *)
(***************************************************************************)
THEOREM PretestsStayLimited == S!Spec => []PretestsAreLimited
<1>1. ASSUME StartsTyped, LimitInv, PassInv PROVE PretestsAreLimited
  <2>1. beyond <= Cardinality(Request)
    <3>1. Locking \subseteq Request
      BY DEF Locking
    <3>2. /\ Cardinality(Locking) \in Nat /\ Cardinality(Request) \in Nat /\ beyond \in Nat
      BY <1>1, <3>1, RequestsCount DEF StartsTyped
    <3> QED
      BY <1>1, <3>2 DEF PassInv
  <2>2. ASSUME NEW d \in 0..MaxDay
        PROVE  \/ Pretests(d) = {}
               \/ \E c \in Configuration :
                    Cardinality(Pretests(d)) <= c.max + Cardinality(Request) - 1
    <3>1. SUFFICES ASSUME Pretests(d) # {}
                   PROVE  \E c \in Configuration :
                            Cardinality(Pretests(d)) <= c.max + Cardinality(Request) - 1
      OBVIOUS
    <3>2. PICK c \in Configuration :
            Cardinality(Pretests(d)) + (IF d = day THEN Cardinality(Pending) ELSE 0)
              <= c.max + Cardinality(Request) - 1
      BY <1>1, <3>1 DEF LimitInv, Allowed
    <3>3. Pending \subseteq Request /\ Pretests(d) \subseteq DOMAIN rows
      BY DEF Pending, Pretests
    <3>4. /\ Cardinality(Pretests(d)) \in Nat /\ Cardinality(Pending) \in Nat
          /\ Cardinality(Request) \in Nat /\ c.max \in Nat
      BY <1>1, <3>3, RequestsCount, RowsCount, StartsAssumption DEF S!ConstantsAssumption
    <3> QED
      BY <3>2, <3>4
  <2>3. \A d : {i \in DOMAIN rows : rows[i].pretest /\ rows[i].day = d} = Pretests(d)
    BY DEF Pretests
  <2> QED
    BY <2>1, <2>2, <2>3, SameCount DEF PretestsAreLimited, S!PretestsAreLimited
<1>2. S!Init => LimitInv /\ PassInv
  BY LimitStarts
<1>3. StartsTyped /\ LimitInv /\ PassInv /\ [S!Next]_S!vars => LimitInv' /\ PassInv'
  BY LimitStep, PassStep
<1> QED
  BY <1>1, <1>2, <1>3, StartsTypes, PTL DEF S!Spec

-----------------------------------------------------------------------------
(* ExamAttempts: official exams of the list                                 *)

\* What is taken of an exam, by whom it will be.
Listed(e) == {i \in DOMAIN rows : rows[i].exam = e /\ ~rows[i].pretest}
Coming(e) == {p \in Request : startProc[p].pc = "insert" /\ startProc[p].exam = e}

\* A request that ends a session first is not about an official exam.
EndsPractice(x) == x.pc = "end" /\ x.next = "insert" => x.exam \notin Official

OnceInv ==
  /\ \A p \in Request : EndsPractice(startProc[p])
  /\ \A e \in Official :
       Cardinality(Listed(e)) + Cardinality(Coming(e)) <= Cardinality(Request)

\* Where a request inserts no session of an official exam.
Patient(x) == EndsPractice(x) /\ (x.pc = "insert" => x.exam \notin Official)

LEMMA PretestsArePatient ==
  ASSUME StartsTyped, NEW p \in Request, NEW next \in S!Local, S!Goto(p, next),
         \/ \E new \in Configuration \cup {None} : S!ConfigRead(p, new)
         \/ S!PretestBegin(p) \/ S!FindPretest(p) \/ S!CountPretests(p) \/ S!ExpirePretest(p)
         \/ S!AssignFromPool(p) \/ S!AssignFromBank(p) \/ S!Fail(p)
  PROVE  Patient(next)
<1> DEFINE x == startProc[p]
           At(pc) == \E rest : S!Goto(p, rest) /\ rest.pc = pc
<1>1. startProc'[p] = next /\ \A rest : S!Goto(p, rest) => rest = next
  BY StartMoves DEF S!Goto, StartsTyped
<1>2. ASSUME \E pc \in {"idle", "saveConfig", "find", "count", "expire", "assign", "insertPretest"} :
               At(pc)
      PROVE  Patient(next)
  <2>1. next.pc \in {"idle", "saveConfig", "find", "count", "expire", "assign", "insertPretest"}
    BY <1>1, <1>2
  <2> QED
    BY <2>1 DEF Patient, EndsPractice
<1>3. S!End(p) => At("idle")
  BY StartIdle DEF S!End
<1>4. ASSUME NEW pc, NEW config0, NEW d,
             \/ S!Goto(p, [pc |-> pc, config |-> config0])
             \/ S!Goto(p, [pc |-> pc, config |-> config0, day |-> d])
             \/ \E i : S!Goto(p, [pc |-> pc, config |-> config0, day |-> d, id |-> i])
             \/ \E e : S!Goto(p, [pc |-> pc, config |-> config0, exam |-> e])
      PROVE  At(pc)
  <2>1. /\ [pc |-> pc, config |-> config0].pc = pc
        /\ [pc |-> pc, config |-> config0, day |-> d].pc = pc
        /\ \A i : [pc |-> pc, config |-> config0, day |-> d, id |-> i].pc = pc
        /\ \A e : [pc |-> pc, config |-> config0, exam |-> e].pc = pc
    OBVIOUS
  <2> QED
    BY <1>4, <2>1, Zenon
<1> HIDE DEF At
<1>5. ASSUME \E new \in Configuration \cup {None} : S!ConfigRead(p, new) PROVE At("saveConfig")
  BY <1>4, <1>5 DEF S!ConfigRead
<1>6. ASSUME S!PretestBegin(p) PROVE At("find")
  BY <1>4, <1>6 DEF S!PretestBegin
<1>7. ASSUME S!FindPretest(p) PROVE At("idle") \/ At("count") \/ At("expire")
  <2>1. \/ S!End(p) \/ S!Goto(p, [pc |-> "count", config |-> x.config, day |-> x.day])
        \/ \E i : S!Goto(p, [pc |-> "expire", config |-> x.config, day |-> x.day, id |-> i])
    BY <1>7 DEF S!FindPretest
  <2> QED
    BY <1>3, <1>4, <2>1
<1>8. ASSUME S!CountPretests(p) PROVE At("idle") \/ At("assign")
  <2>1. S!End(p) \/ S!Goto(p, [pc |-> "assign", config |-> x.config])
    BY <1>8 DEF S!CountPretests
  <2> QED
    BY <1>3, <1>4, <2>1
<1>9. ASSUME S!ExpirePretest(p) PROVE At("count")
  <2>1. S!Goto(p, [pc |-> "count", config |-> x.config, day |-> x.day])
    BY <1>9 DEF S!ExpirePretest
  <2> QED
    BY <1>4, <2>1
<1>10. ASSUME S!AssignFromPool(p) \/ S!AssignFromBank(p) PROVE At("idle") \/ At("insertPretest")
  <2>1. S!End(p) \/ \E e : S!Goto(p, [pc |-> "insertPretest", config |-> x.config, exam |-> e])
    BY <1>10 DEF S!AssignFromPool, S!AssignFromBank, S!Assign
  <2> QED
    BY <1>3, <1>4, <2>1
<1>11. S!Fail(p) => At("idle")
  BY <1>3 DEF S!Fail
<1> QED
  BY <1>2, <1>5, <1>6, <1>7, <1>8, <1>9, <1>10, <1>11

\* Only a request that has found no session of an official exam will insert one.
LEMMA ListIsPatient ==
  ASSUME StartsTyped, OnceInv, NEW p \in Request, NEW next \in S!Local, S!Goto(p, next),
         \/ \E x \in S!Exam, walkIn \in BOOLEAN : S!StartBegin(p, x, walkIn)
         \/ S!FindLinked(p) \/ S!FindLatest(p) \/ S!EndWrite(p)
  PROVE  \/ Patient(next)
         \/ /\ S!FindLatest(p) /\ S!Started(startProc[p].exam) = {} /\ EndsPractice(next)
            /\ next.pc = "insert" /\ next.exam = startProc[p].exam
<1> DEFINE x == startProc[p]
<1>1. x \in S!Local /\ \A rest : S!Goto(p, rest) => rest = next
  BY StartMoves DEF S!Goto, StartsTyped
<1>2. ASSUME NEW e \in S!Exam, NEW walkIn \in BOOLEAN, S!StartBegin(p, e, walkIn)
      PROVE  Patient(next)
  <2> DEFINE booked == e \in Practice /\ booking = "PRACTICE"
             at == IF booked THEN "linked" ELSE "latest"
  <2>1. S!Goto(p, [pc |-> at, exam |-> e, booked |-> booked])
    BY <1>2 DEF S!StartBegin
  <2>2. at \in {"linked", "latest"}
    OBVIOUS
  <2> HIDE DEF at, booked
  <2>3. next.pc \in {"linked", "latest"}
    BY <1>1, <2>1, <2>2
  <2> QED
    BY <2>3 DEF Patient, EndsPractice
<1>3. ASSUME S!FindLinked(p) PROVE Patient(next)
  <2> DEFINE L == [x EXCEPT !.pc = "latest"]
  <2>1. x.pc = "linked"
    BY <1>3 DEF S!FindLinked
  <2>2. L.pc = "latest"
    BY <1>1, <2>1, StartLocals
  <2>3. \/ S!Goto(p, S!Idle) \/ S!Goto(p, L)
        \/ \E i : S!Goto(p, [pc |-> "end", exam |-> x.exam, booked |-> x.booked, id |-> i,
                            next |-> "latest"])
    BY <1>3 DEF S!FindLinked, S!End, S!EndNext
  <2> HIDE DEF L, x
  <2>4. \/ next = S!Idle \/ next = L
        \/ \E i : next = [pc |-> "end", exam |-> x.exam, booked |-> x.booked, id |-> i,
                          next |-> "latest"]
    BY <1>1, <2>3
  <2>5. next.pc = "idle" \/ next.pc = "latest" \/ (next.pc = "end" /\ next.next = "latest")
    BY <2>2, <2>4, StartIdle
  <2> QED
    BY <2>5 DEF Patient, EndsPractice
<1>4. ASSUME S!EndWrite(p) PROVE Patient(next)
  <2>1. next = [pc |-> x.next, exam |-> x.exam, booked |-> x.booked] /\ x.pc = "end"
    BY <1>1, <1>4 DEF S!EndWrite
  <2>2. x.next \in {"latest", "insert"}
    BY <1>1, <2>1, StartLocals
  <2>3. next.pc = x.next /\ next.exam = x.exam
    BY <2>1
  <2> QED
    BY <2>1, <2>2, <2>3 DEF Patient, EndsPractice, OnceInv
<1>5. ASSUME S!FindLatest(p)
      PROVE  \/ Patient(next)
             \/ /\ S!Started(x.exam) = {} /\ EndsPractice(next)
                /\ next.pc = "insert" /\ next.exam = x.exam
  <2> DEFINE I == [pc |-> "insert", exam |-> x.exam, booked |-> x.booked]
  <2>1. \/ S!Goto(p, S!Idle)
        \/ S!Goto(p, I) /\ (S!Started(x.exam) = {} \/ x.exam \notin Official)
        \/ /\ x.exam \notin Official
           /\ \E i : S!Goto(p, [pc |-> "end", exam |-> x.exam, booked |-> x.booked, id |-> i,
                               next |-> "insert"])
    BY <1>5 DEF S!FindLatest, S!End, S!EndNext
  <2>2. \/ next = S!Idle
        \/ next = I /\ (S!Started(x.exam) = {} \/ x.exam \notin Official)
        \/ /\ x.exam \notin Official
           /\ \E i : next = [pc |-> "end", exam |-> x.exam, booked |-> x.booked, id |-> i,
                             next |-> "insert"]
    BY <1>1, <2>1
  <2>3. \/ next.pc = "idle"
        \/ /\ next.pc = "insert" /\ next.exam = x.exam
           /\ S!Started(x.exam) = {} \/ x.exam \notin Official
        \/ next.pc = "end" /\ next.exam = x.exam /\ x.exam \notin Official
    BY <2>2, StartIdle
  <2> QED
    BY <2>3 DEF Patient, EndsPractice
<1> QED
  BY <1>2, <1>3, <1>4, <1>5

LEMMA KeptListed ==
  ASSUME Kept
  PROVE  \A e : Listed(e)' = Listed(e)
<1> SUFFICES ASSUME NEW e PROVE Listed(e)' = Listed(e)
  OBVIOUS
<1> QED
  BY DEF Kept, Listed

LEMMA ListedCount ==
  ASSUME StartsTyped
  PROVE  \A e : /\ IsFiniteSet(Listed(e)) /\ Cardinality(Listed(e)) \in Nat
                /\ Cardinality(Coming(e)) \in Nat /\ Coming(e) \subseteq Request
<1> SUFFICES ASSUME NEW e
             PROVE  /\ IsFiniteSet(Listed(e)) /\ Cardinality(Listed(e)) \in Nat
                    /\ Cardinality(Coming(e)) \in Nat /\ Coming(e) \subseteq Request
  OBVIOUS
<1>1. Coming(e) \subseteq Request /\ Listed(e) \subseteq DOMAIN rows
  BY DEF Coming, Listed
<1> QED
  BY <1>1, RowsCount, RequestsCount

\* Sessions are kept, and none is to come that was not.
LEMMA OnceKept ==
  ASSUME StartsTyped, OnceInv, \A e \in Official : Listed(e)' = Listed(e),
         \A e \in Official : Coming(e)' \subseteq Coming(e),
         (\A p \in Request : EndsPractice(startProc[p]))'
  PROVE  OnceInv'
<1>1. ASSUME NEW e \in Official
      PROVE  Cardinality(Listed(e)') + Cardinality(Coming(e)') <= Cardinality(Request)
  <2>1. Coming(e)' \subseteq Coming(e) /\ Coming(e) \subseteq Request
    BY <1>1, ListedCount
  <2>2. /\ Cardinality(Coming(e)') <= Cardinality(Coming(e)) /\ Cardinality(Coming(e)') \in Nat
        /\ Cardinality(Request) \in Nat
    BY <2>1, RequestsCount
  <2>3. Listed(e)' = Listed(e)
    OBVIOUS
  <2>4. Cardinality(Listed(e)) \in Nat /\ Cardinality(Coming(e)) \in Nat
    BY ListedCount
  <2>5. Cardinality(Listed(e)) + Cardinality(Coming(e)) <= Cardinality(Request)
    BY DEF OnceInv
  <2> QED
    BY <2>2, <2>3, <2>4, <2>5
<1> QED
  BY <1>1 DEF OnceInv

LEMMA PatientMoves ==
  ASSUME StartsTyped, OnceInv, NEW p \in Request, NEW next \in S!Local, S!Goto(p, next),
         Patient(next), Kept
  PROVE  OnceInv'
<1>1. startProc'[p] = next /\ \A q \in Request : q # p => startProc'[q] = startProc[q]
  BY StartMoves
<1>2. \A q \in Request : EndsPractice(startProc'[q])
  BY <1>1 DEF OnceInv, Patient
<1>3. \A e \in Official : Coming(e)' \subseteq Coming(e)
  BY <1>1 DEF Coming, Patient
<1> QED
  BY <1>2, <1>3, KeptListed, OnceKept

LEMMA OnceFound ==
  ASSUME StartsTyped, OnceInv, NEW p \in Request, NEW next \in S!Local, S!Goto(p, next),
         S!FindLatest(p), S!Started(startProc[p].exam) = {}, EndsPractice(next),
         next.pc = "insert", next.exam = startProc[p].exam
  PROVE  OnceInv'
<1> DEFINE x == startProc[p]
<1>1. startProc'[p] = next /\ \A q \in Request : q # p => startProc'[q] = startProc[q]
  BY StartMoves
<1>2. Kept
  BY StartsRead DEF StartReads, Kept
<1>3. \A q \in Request : EndsPractice(startProc'[q])
  BY <1>1 DEF OnceInv
<1>4. \A e : Listed(e)' = Listed(e)
  BY <1>2, KeptListed
<1>5. ASSUME NEW e \in Official
      PROVE  Cardinality(Listed(e)') + Cardinality(Coming(e)') <= Cardinality(Request)
  <2>1. CASE e = x.exam
    <3>1. Listed(e) = {}
      BY <2>1 DEF Listed, S!Started
    <3>2. Cardinality(Listed(e)') = 0
      BY <1>4, <3>1, FS_EmptySet
    <3>3. Coming(e)' \subseteq Request
      BY DEF Coming
    <3>4. /\ Cardinality(Coming(e)') <= Cardinality(Request) /\ Cardinality(Coming(e)') \in Nat
          /\ Cardinality(Request) \in Nat
      BY <3>3, RequestsCount
    <3> QED
      BY <3>2, <3>4
  <2>2. CASE e # x.exam
    <3>1. Coming(e)' = Coming(e) \ {p} /\ Coming(e) \subseteq Request
      BY <1>1, <2>2 DEF Coming
    <3>2. /\ Cardinality(Coming(e)') <= Cardinality(Coming(e)) /\ Cardinality(Coming(e)') \in Nat
          /\ Cardinality(Request) \in Nat
      BY <3>1, RequestsCount
    <3>3. /\ Cardinality(Listed(e)) + Cardinality(Coming(e)) <= Cardinality(Request)
          /\ Cardinality(Listed(e)) \in Nat /\ Cardinality(Coming(e)) \in Nat
      BY ListedCount DEF OnceInv
    <3> QED
      BY <1>4, <3>2, <3>3
  <2> QED
    BY <2>1, <2>2
<1> QED
  BY <1>3, <1>5 DEF OnceInv

\* A session that starts was to come; a pretest is not of the list.
LEMMA OnceInserts ==
  ASSUME StartsTyped, OnceInv, NEW p \in Request, S!InsertPretest(p) \/ S!InsertSession(p)
  PROVE  OnceInv'
<1> DEFINE x == startProc[p]
<1>1. S!End(p)
  BY InsertsType
<1>2. /\ startProc'[p] = S!Idle /\ S!Idle.pc = "idle"
      /\ \A q \in Request : q # p => startProc'[q] = startProc[q]
  BY <1>1, StartMoves, StartIdle DEF S!End
<1>3. \A q \in Request : EndsPractice(startProc'[q])
  BY <1>2 DEF OnceInv, EndsPractice
<1>4. \A e : Coming(e)' = Coming(e) \ {p}
  BY <1>2 DEF Coming
<1>5. CASE S!InsertPretest(p)
  <2>1. PICK n \in Nat : Numbered(n) /\ Started(n, x.exam, TRUE, FALSE)
    BY <1>5, InsertsType
  <2>2. DOMAIN rows = 1..n
    BY <2>1, NumberedIsNumber
  <2>3. /\ DOMAIN rows' = 1..n \cup {n + 1} /\ \A i \in 1..n : rows'[i] = rows[i]
        /\ rows'[n + 1].pretest
    BY <2>1 DEF Started
  <2>4. \A e \in Official : Listed(e)' = Listed(e)
    BY <2>2, <2>3 DEF Listed
  <2>5. \A e \in Official : Coming(e)' \subseteq Coming(e)
    BY <1>4
  <2> QED
    BY <1>3, <2>4, <2>5, OnceKept
<1>6. CASE S!InsertSession(p)
  <2>1. PICK n \in Nat : Numbered(n) /\ Started(n, x.exam, FALSE, x.booked)
    BY <1>6, InsertsType
  <2>2. DOMAIN rows = 1..n /\ n + 1 \notin DOMAIN rows
    BY <2>1, NumberedIsNumber
  <2>3. /\ DOMAIN rows' = 1..n \cup {n + 1} /\ \A i \in 1..n : rows'[i] = rows[i]
        /\ ~rows'[n + 1].pretest /\ rows'[n + 1].exam = x.exam
    BY <2>1 DEF Started
  <2>4. x.pc = "insert"
    BY <1>6 DEF S!InsertSession
  <2>5. ASSUME NEW e \in Official
        PROVE  Cardinality(Listed(e)') + Cardinality(Coming(e)') <= Cardinality(Request)
    <3>1. /\ Cardinality(Listed(e)) + Cardinality(Coming(e)) <= Cardinality(Request)
          /\ Cardinality(Listed(e)) \in Nat /\ Cardinality(Coming(e)) \in Nat
          /\ Coming(e) \subseteq Request /\ IsFiniteSet(Listed(e))
      BY ListedCount DEF OnceInv
    <3>2. CASE e = x.exam
      <4>1. Listed(e)' = Listed(e) \cup {n + 1} /\ n + 1 \notin Listed(e)
        BY <2>2, <2>3, <3>2 DEF Listed
      <4>2. Cardinality(Listed(e)') = Cardinality(Listed(e)) + 1
        BY <3>1, <4>1, FS_AddElement
      <4>3. p \in Coming(e)
        BY <2>4, <3>2 DEF Coming
      <4>4. Cardinality(Coming(e)') = Cardinality(Coming(e)) - 1
        BY <1>4, <3>1, <4>3, RequestsCount
      <4> QED
        BY <3>1, <4>2, <4>4, RequestsCount
    <3>3. CASE e # x.exam
      <4>1. Listed(e)' = Listed(e)
        BY <2>2, <2>3, <3>3 DEF Listed
      <4>2. p \notin Coming(e)
        BY <3>3 DEF Coming
      <4>3. Coming(e)' = Coming(e)
        BY <1>4, <4>2
      <4> QED
        BY <3>1, <4>1, <4>3
    <3> QED
      BY <3>2, <3>3
  <2> QED
    BY <1>3, <2>5 DEF OnceInv
<1> QED
  BY <1>5, <1>6

LEMMA OnceStep == ASSUME StartsTyped, OnceInv, [S!Next]_S!vars PROVE OnceInv'
<1>1. ASSUME NEW p \in Request, StartReads(p) \/ StartEnds(p) PROVE OnceInv'
  <2>1. Kept /\ \E next \in S!Local : S!Goto(p, next)
    <3>1. CASE StartReads(p)
      BY <3>1, StartsRead DEF Kept
    <3>2. CASE StartEnds(p)
      BY <3>2, EndsKeep
    <3> QED
      BY <1>1, <3>1, <3>2
  <2>2. PICK next \in S!Local : S!Goto(p, next)
    BY <2>1
  <2>3. CASE Patient(next)
    BY <2>1, <2>2, <2>3, PatientMoves
  <2>4. \/ Patient(next)
        \/ /\ S!FindLatest(p) /\ S!Started(startProc[p].exam) = {} /\ EndsPractice(next)
           /\ next.pc = "insert" /\ next.exam = startProc[p].exam
    BY <1>1, <2>2, PretestsArePatient, ListIsPatient DEF StartReads, StartEnds
  <2> QED
    BY <2>2, <2>3, <2>4, OnceFound
<1>2. ASSUME NEW p \in Request, S!ConfigWrite(p) PROVE OnceInv'
  <2>1. S!Goto(p, S!Idle) /\ Kept
    BY <1>2 DEF S!ConfigWrite, S!End, Kept
  <2>2. Patient(S!Idle)
    BY StartIdle DEF Patient, EndsPractice
  <2> QED
    BY <2>1, <2>2, StartIdle, PatientMoves
<1>3. CASE Kept /\ UNCHANGED startProc
  <2>1. \A e : Coming(e)' = Coming(e)
    BY <1>3 DEF Coming
  <2>2. (\A p \in Request : EndsPractice(startProc[p]))'
    BY <1>3 DEF OnceInv
  <2> QED
    BY <1>3, <2>1, <2>2, KeptListed, OnceKept
<1>4. CASE StartEvents
  BY <1>3, <1>4, EventsKeep
<1>5. ASSUME NEW x \in S!Exam, S!OpenExam(x) PROVE OnceInv'
  BY <1>3, <1>5 DEF S!OpenExam, Kept
<1>6. CASE S!Midnight \/ UNCHANGED S!vars
  BY <1>3, <1>6 DEF S!Midnight, S!vars, Kept
<1> QED
  BY <1>1, <1>2, <1>4, <1>5, <1>6, StartsCases, OnceInserts

LEMMA OnceStarts == ASSUME S!Init PROVE OnceInv
<1>1. DOMAIN rows = {} /\ \A p \in Request : startProc[p] = S!Idle
  BY DEF S!Init
<1>2. \A e : Listed(e) = {} /\ Coming(e) = {}
  BY <1>1, StartIdle DEF Listed, Coming
<1>3. \A e : Cardinality(Listed(e)) = 0 /\ Cardinality(Coming(e)) = 0
  BY <1>2, FS_EmptySet
<1>4. \A p \in Request : EndsPractice(startProc[p])
  BY <1>1, StartIdle DEF EndsPractice
<1>5. 0 + 0 <= Cardinality(Request)
  BY RequestsCount
<1> QED
  BY <1>3, <1>4, <1>5 DEF OnceInv

(***************************************************************************)
(* startSession: an official exam is taken from the list no more often     *)
(* than requests looked for it at the same time, however its sessions end  *)
(* and whatever other exams are taken between.                             *)
(***************************************************************************)
THEOREM ExamsAreTakenOnce == S!Spec => []OfficialExamsOnce
<1>1. ASSUME StartsTyped, OnceInv PROVE OfficialExamsOnce
  <2>1. ASSUME NEW e \in Official PROVE Cardinality(Listed(e)) <= Cardinality(Request)
    BY <1>1, ListedCount, RequestsCount DEF OnceInv
  <2>2. \A e : {i \in DOMAIN rows : rows[i].exam = e /\ ~rows[i].pretest} = Listed(e)
    BY DEF Listed
  <2> QED
    BY <2>1, <2>2, SameCount DEF OfficialExamsOnce, S!OfficialExamsOnce
<1>2. S!Init => OnceInv
  BY OnceStarts
<1>3. StartsTyped /\ OnceInv /\ [S!Next]_S!vars => OnceInv'
  BY OnceStep
<1> QED
  BY <1>1, <1>2, <1>3, StartsTypes, PTL DEF S!Spec
=============================================================================
