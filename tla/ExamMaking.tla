------------------------------ MODULE ExamMaking ------------------------------
(***************************************************************************)
(* Exams are made from the bank of questions and problems, changed and     *)
(* published (src/exams).                                                  *)
(*                                                                         *)
(* The questions of an exam are named, or drawn by rules, or by numbers    *)
(* for each difficulty.  A draw takes several queries, and the bank        *)
(* changes between them.  STRICT draws all that is asked or nothing,       *)
(* FLEXIBLE makes up from elsewhere for what a query lacks.                *)
(*                                                                         *)
(* What the filters of a query tell apart is the class of a question.      *)
(* Problems are drawn by their number only; by difficulty they are drawn   *)
(* by the same queries as questions.                                       *)
(***************************************************************************)
EXTENDS Integers, FiniteSets, FiniteSetsExt

CONSTANTS
  Exam,         \* ids of exams; one is not given again
  Question,     \* ids of questions
  Problem,      \* ids of problems
  Class,        \* a difficulty, or a subject and a difficulty
  Rule,         \* rules: draw count from the classes "from", else "other"
  MaxDraw,      \* bound: questions of one class, or by one rule, to draw
  MaxTime,      \* bound: points in time
  Threshold,    \* bound: the passing scores that are asked for
  Setting,      \* bound: what is asked for about publication
  None, Keep,   \* null; a field left out of an update
  Process       \* requests handled at the same time

\* What the constants are; the instances assume it.  Of a publication a request
\* sets visibility, publishAt ("at") and publishNow; Keep leaves a field alone.
ConstantsAssumption ==
  /\ Rule \subseteq [from : SUBSET Class, other : SUBSET Class, count : 0..MaxDraw]
  /\ \A set \in {Rule, Question, Problem, Class} : IsFiniteSet(set)
  /\ {MaxDraw, MaxTime} \cup Threshold \subseteq Nat
  /\ Setting \subseteq [visibility : {Keep, "PRIVATE", "PUBLIC"},
                        at : (0..MaxTime) \cup {None, Keep}, asNow : BOOLEAN]
  /\ {None, Keep} \cap (Exam \cup Nat) = {} /\ None # Keep

VARIABLES
  bank,      \* the class of each published question, else "hidden" or "gone"
  problems,  \* the same for problems: "published", "hidden" or "gone"
  exams,     \* the Exam rows with their items
  proc,      \* where each process is and what it has read
  now

vars == <<bank, problems, exams, proc, now>>

Time == 0..MaxTime
Type == {"EXAM", "PRACTICE"}
Score == Threshold \cup {None}
Drawn == Question \X Class

\* publishAt and publishedAt as "at" and "since".
Private == [visibility |-> "PRIVATE", at |-> None, since |-> None, isPublished |-> FALSE]
Publication ==
  [visibility : {"PRIVATE", "PUBLIC"}, at : Time \cup {None},
   since : Time \cup {None}, isPublished : BOOLEAN]

\* What a request asks of the draw: all of it or what there is, how many
\* questions of each class or by which rules, how many problems.
Order ==
  [strict : BOOLEAN, want : [Class -> 0..MaxDraw], rules : SUBSET Rule,
   problems : 0..Cardinality(Problem)]

\* "order" is history: what was drawn for, None for an exam made by hand.
Row ==
  [questionCount : Nat, problemCount : Nat, items : SUBSET Drawn, problems : SUBSET Problem,
   type : Type, threshold : Score, publication : Publication,
   order : Order \cup {None}]

Idle == [pc |-> "idle"]
Empty == [c \in Class |-> 0]

\* A draw: the order, the questions drawn with the class they had, their number.
Draw(pcs) == [pc : pcs, order : Order, picked : SUBSET Drawn, n : Nat]

Local ==
  {Idle}
  \cup Draw({"count", "problems"})
  \cup [pc : {"rank"}, order : Order, limit : [Class -> Nat]]
  \cup [pc : {"rules"}, order : Order, picked : SUBSET Drawn, n : Nat, todo : SUBSET Rule]
  \cup [pc : {"more"}, order : Order, picked : SUBSET Drawn, n : Nat, todo : SUBSET Rule,
        from : SUBSET Class, lacks : Nat]
  \cup [pc : {"create"}, order : Order \cup {None}, picked : SUBSET Drawn, n : Nat,
        chosen : SUBSET Problem]
  \cup [pc : {"update"}, exam : Exam, type : Type, threshold : Score, publication : Publication]
  \cup [pc : {"remove"}, exam : Exam]

TypeOK ==
  /\ bank \in [Question -> Class \cup {"hidden", "gone"}]
  /\ problems \in [Problem -> {"published", "hidden", "gone"}]
  /\ \A e \in Exam : exams[e] = None \/ exams[e] \in Row
  /\ \A p \in Process : proc[p] \in Local
  /\ now \in Time

Init ==
  /\ bank \in [Question -> Class \cup {"hidden"}]
  /\ problems \in [Problem -> {"published", "hidden"}]
  /\ exams = [e \in Exam |-> None]
  /\ proc = [p \in Process |-> Idle]
  /\ now = 0

Goto(p, next) == proc' = [proc EXCEPT ![p] = next]
End(p) == Goto(p, Idle)
Asks == UNCHANGED <<bank, problems, exams, now>>
Start(p, next) == proc[p].pc = "idle" /\ Goto(p, next) /\ Asks

Lesser(m, n) == IF m < n THEN m ELSE n
Ids(drawn) == {d[1] : d \in drawn}
OfClass(drawn, c) == {d \in drawn : d[2] = c}
Total(want) == Cardinality({pt \in Class \X (1..MaxDraw) : pt[2] <= want[pt[1]]})
Counts(rules) == Cardinality({pt \in rules \X (1..MaxDraw) : pt[2] <= pt[1].count})
Asked(order) == IF order.rules = {} THEN Total(order.want) ELSE Counts(order.rules)

\* The published questions a filter finds.
Found(classes, except) ==
  {d \in Drawn : bank[d[1]] = d[2] /\ d[2] \in classes /\ d[1] \notin except}

\* ORDER BY random() LIMIT n.
AnyOf(set, n) == kSubset(Lesser(n, Cardinality(set)), set)

-----------------------------------------------------------------------------
(* Drawing: create, createRandom, createManual *)

CreateBegin(p, order) ==
  /\ Asked(order) + order.problems > 0
  /\ order.rules # {} => order.want = Empty
  /\ Start(p, IF order.rules = {}
                THEN [pc |-> "count", order |-> order, picked |-> {}, n |-> 0]
                ELSE [pc |-> "rules", order |-> order, picked |-> {}, n |-> 0, todo |-> order.rules])

\* The questions drawn so far; those still missing are looked for, or missed.
Continue(p, order, picked, n, todo) ==
  Goto(p, IF todo # {}
            THEN [pc |-> "rules", order |-> order, picked |-> picked, n |-> n, todo |-> todo]
            ELSE [pc |-> "problems", order |-> order, picked |-> picked, n |-> n])

LookForMore(p, order, picked, n, todo, from, lacks) ==
  Goto(p, [pc |-> "more", order |-> order, picked |-> picked, n |-> n, todo |-> todo,
           from |-> from, lacks |-> lacks])

\* One query counts what there is of each difficulty.
CountLevels(p) ==
  LET order == proc[p].order
      there == [c \in Class |-> Cardinality(Found({c}, {}))]
  IN
  /\ proc[p].pc = "count"
  /\ IF order.strict /\ \E c \in Class : order.want[c] > there[c]
       THEN End(p)
       ELSE Goto(p, [pc |-> "rank", order |-> order,
                     limit |-> [c \in Class |-> Lesser(order.want[c], there[c])]])
  /\ Asks

\* Mutant of Rejected: the counts are relied upon.
NeverRejected(order, n) == FALSE

\* A strict draw that found too few after all.
Rejected(order, n) == order.strict /\ n < Asked(order)

\* Mutant of Lacks: the numbers are swapped.
Surplus(asked, n) == n - asked

Lacks(asked, n) == asked - n

\* Another query draws.
RankLevels(p) ==
  LET order == proc[p].order IN
  /\ proc[p].pc = "rank"
  /\ \E picked \in SUBSET Found(Class, {}) :
       LET n == Cardinality(picked) IN
       /\ \A c \in Class : Cardinality(OfClass(picked, c))
                             = Lesser(proc[p].limit[c], Cardinality(Found({c}, {})))
       /\ IF Rejected(order, n) THEN End(p)
          ELSE IF n < Total(order.want)
            THEN LookForMore(p, order, picked, n, {}, Class, Lacks(Total(order.want), n))
            ELSE Continue(p, order, picked, n, {})
  /\ Asks

\* The next rule draws from what no rule before has drawn.
DrawByRule(p) ==
  LET order == proc[p].order
      picked == proc[p].picked
  IN
  /\ proc[p].pc = "rules"
  /\ \E r \in proc[p].todo : \E drawn \in AnyOf(Found(r.from, Ids(picked)), r.count) :
       LET n == Cardinality(drawn) IN
       IF n = r.count
         THEN Continue(p, order, picked \cup drawn, proc[p].n + n, proc[p].todo \ {r})
         ELSE IF order.strict THEN End(p)
         ELSE LookForMore(p, order, picked \cup drawn, proc[p].n + n, proc[p].todo \ {r},
                          r.other, Lacks(r.count, n))
  /\ Asks

\* Flexible: another query makes up for what lacks, from what is not drawn yet.
DrawMore(p) ==
  /\ proc[p].pc = "more"
  /\ \E drawn \in AnyOf(Found(proc[p].from, Ids(proc[p].picked)), proc[p].lacks) :
       Continue(p, proc[p].order, proc[p].picked \cup drawn,
                proc[p].n + Cardinality(drawn), proc[p].todo)
  /\ Asks

DrawProblems(p) ==
  LET order == proc[p].order
      there == {b \in Problem : problems[b] = "published"}
  IN
  /\ proc[p].pc = "problems"
  /\ IF order.strict /\ Cardinality(there) < order.problems
       THEN End(p)
       ELSE \E chosen \in AnyOf(there, order.problems) :
              Goto(p, [pc |-> "create", order |-> order, picked |-> proc[p].picked,
                       n |-> proc[p].n, chosen |-> chosen])
  /\ Asks

\* Named questions and problems have to be published.
CreateByHand(p, picked, chosen) ==
  /\ picked # {} \/ chosen # {}
  /\ picked \subseteq Found(Class, {})
  /\ \A b \in chosen : problems[b] = "published"
  /\ Start(p, [pc |-> "create", order |-> None, picked |-> picked,
               n |-> Cardinality(picked), chosen |-> chosen])

-----------------------------------------------------------------------------
(* Publication *)

\* buildPublicationState
Publish(visibility, at, asNow) ==
  CASE visibility = "PRIVATE" -> Private
    [] visibility = "PUBLIC" /\ asNow ->
         [visibility |-> "PUBLIC", at |-> None, since |-> now, isPublished |-> TRUE]
    [] visibility = "PUBLIC" /\ ~asNow ->
         IF at # None /\ at > now
           THEN [visibility |-> "PUBLIC", at |-> at, since |-> None, isPublished |-> FALSE]
           ELSE [visibility |-> "PUBLIC", at |-> at, since |-> now, isPublished |-> TRUE]

\* resolvePublicationUpdate, from the row as it was read.
Republish(set, old, current) ==
  IF set = [visibility |-> Keep, at |-> Keep, asNow |-> FALSE] THEN current
  ELSE Publish(IF set.visibility = Keep THEN old.visibility ELSE set.visibility,
               IF set.at = Keep THEN old.at ELSE set.at, set.asNow)

\* publishNow comes without a date.
Sound(set) == set.asNow => set.at \in {Keep, None}

\* Mutant of Due: whatever is public is published.
DueOrNot(x) == x.visibility = "PUBLIC" /\ ~x.isPublished

Due(x) == x.visibility = "PUBLIC" /\ x.at \in 0..now /\ ~x.isPublished

\* syncScheduledExamPublication, before every list of exams.
SyncPublication ==
  /\ exams' = [e \in Exam |->
       IF exams[e] = None THEN None
       ELSE IF Due(exams[e].publication)
         THEN [exams[e] EXCEPT !.publication.isPublished = TRUE, !.publication.since = now]
         ELSE exams[e]]
  /\ UNCHANGED <<bank, problems, proc, now>>

-----------------------------------------------------------------------------
(* Rows *)

Points(questions, probs) == questions + probs

\* The transaction is rolled back when something drawn has been deleted.
CreateWrite(p, e, type, threshold, set) ==
  LET new == proc[p]
      score == Points(new.n, Cardinality(new.chosen))
  IN
  /\ new.pc = "create"
  /\ exams[e] = None /\ \A o \in Process : proc[o].pc \in {"update", "remove"} => proc[o].exam # e
  /\ type = "PRACTICE" => threshold = None
  /\ set.visibility # Keep /\ set.at # Keep /\ Sound(set)
  /\ End(p)
  /\ exams' =
       IF \/ threshold # None /\ threshold > score
          \/ \E d \in new.picked : bank[d[1]] = "gone"
          \/ \E b \in new.chosen : problems[b] = "gone"
         THEN exams
         ELSE [exams EXCEPT ![e] =
                [questionCount |-> new.n, problemCount |-> Cardinality(new.chosen),
                 items |-> new.picked, problems |-> new.chosen,
                 type |-> type, threshold |-> threshold, order |-> new.order,
                 publication |-> Publish(set.visibility, set.at, set.asNow)]]
  /\ UNCHANGED <<bank, problems, now>>

UpdateRead(p, e) ==
  /\ exams[e] # None
  /\ Start(p, [pc |-> "update", exam |-> e, type |-> exams[e].type,
               threshold |-> exams[e].threshold, publication |-> exams[e].publication])

\* Mutant of Updated: only what the request names is written.
UpdatedInPart(row, type, kind, threshold) ==
  [row EXCEPT !.type = IF type = Keep THEN @ ELSE kind, !.threshold = threshold]

\* The type and the threshold are written together, named or not.
Updated(row, type, kind, threshold) ==
  [row EXCEPT !.type = kind, !.threshold = threshold]

\* The threshold is compared with the points of the items, that never change.
UpdateWrite(p, type, threshold, set) ==
  LET e == proc[p].exam
      old == proc[p]
      kind == IF type = Keep THEN old.type ELSE type
      next == IF kind = "PRACTICE" THEN None
              ELSE IF threshold = Keep THEN old.threshold ELSE threshold
  IN
  /\ proc[p].pc = "update"
  /\ Sound(set)
  /\ End(p)
  /\ exams' =
       IF exams[e] = None THEN exams
       ELSE IF \/ kind = "PRACTICE" /\ threshold \notin {None, Keep}
               \/ next # None /\ next > Points(exams[e].questionCount, exams[e].problemCount)
         THEN exams
         ELSE [exams EXCEPT ![e] =
                [Updated(exams[e], type, kind, next) EXCEPT
                   !.publication = Republish(set, old.publication, @)]]
  /\ UNCHANGED <<bank, problems, now>>

RemoveRead(p, e) == exams[e] # None /\ Start(p, [pc |-> "remove", exam |-> e])

RemoveWrite(p) ==
  /\ proc[p].pc = "remove"
  /\ End(p)
  /\ exams' = [exams EXCEPT ![proc[p].exam] = None]
  /\ UNCHANGED <<bank, problems, now>>

-----------------------------------------------------------------------------
\* The bank changes: what is published, of which class, what is deleted.
ChangeQuestion(q, to) ==
  /\ bank[q] # "gone" /\ to # bank[q]
  /\ bank' = [bank EXCEPT ![q] = to]
  /\ UNCHANGED <<problems, exams, proc, now>>

ChangeProblem(b, to) ==
  /\ problems[b] # "gone" /\ to # problems[b]
  /\ problems' = [problems EXCEPT ![b] = to]
  /\ UNCHANGED <<bank, exams, proc, now>>

Tick == now < MaxTime /\ now' = now + 1 /\ UNCHANGED <<bank, problems, exams, proc>>

\* A call the process awaits is rejected, or the server restarts.
Fail(p) == proc[p].pc # "idle" /\ End(p) /\ Asks

Step(p) ==
  \/ \E order \in Order : CreateBegin(p, order)
  \/ CountLevels(p) \/ RankLevels(p) \/ DrawByRule(p) \/ DrawMore(p) \/ DrawProblems(p)
  \/ \E picked \in SUBSET Drawn, chosen \in SUBSET Problem : CreateByHand(p, picked, chosen)
  \/ \E e \in Exam, set \in Setting, threshold \in Score, type \in Type :
       CreateWrite(p, e, type, threshold, set)
  \/ \E e \in Exam : UpdateRead(p, e) \/ RemoveRead(p, e)
  \/ \E set \in Setting, threshold \in Score \cup {Keep}, type \in Type \cup {Keep} :
       UpdateWrite(p, type, threshold, set)
  \/ RemoveWrite(p)
  \/ Fail(p)

Next ==
  \/ \E p \in Process : Step(p)
  \/ SyncPublication
  \/ \E q \in Question, to \in Class \cup {"hidden", "gone"} : ChangeQuestion(q, to)
  \/ \E b \in Problem, to \in {"published", "hidden", "gone"} : ChangeProblem(b, to)
  \/ Tick

Spec == Init /\ [][Next]_vars

-----------------------------------------------------------------------------
(* Properties *)

Made == {e \in Exam : exams[e] # None}

(***************************************************************************)
(* However many queries a draw takes, and whatever is published, moved or  *)
(* deleted between them, the counts of an exam are those of its distinct   *)
(* questions and problems.  A STRICT exam has as many questions of each    *)
(* difficulty as were asked for, though one query counts and another       *)
(* draws, and as many as its rules ask for.                                *)
(***************************************************************************)
DrawsAreExact ==
  \A e \in Made :
    LET order == exams[e].order IN
    /\ exams[e].questionCount = Cardinality(Ids(exams[e].items))
    /\ exams[e].problemCount = Cardinality(exams[e].problems)
    /\ IF order = None THEN TRUE
       ELSE order.strict =>
         /\ exams[e].problemCount = order.problems
         /\ IF order.rules = {}
              THEN \A c \in Class : Cardinality(OfClass(exams[e].items, c)) = order.want[c]
              ELSE exams[e].questionCount = Asked(order)

(***************************************************************************)
(* "Nguong diem dat khong duoc vuot qua tong diem toi da", "De luyen tap   *)
(* khong ho tro nguong diem dat": whatever updates race, each of which     *)
(* checks the row it read, the threshold of an EXAM is within its points   *)
(* and a PRACTICE exam has none.                                           *)
(***************************************************************************)
ThresholdIsWithin ==
  \A e \in Made : exams[e].threshold # None =>
    /\ exams[e].type = "EXAM"
    /\ exams[e].threshold <= Points(Cardinality(exams[e].items), Cardinality(exams[e].problems))

(***************************************************************************)
(* isPublished, which sessions ask for, never runs ahead of visibility and *)
(* publishAt, which students are shown exams by: not when updates that     *)
(* read the row before overwrite each other, nor when the job of a list    *)
(* publishes what is due between.                                          *)
(***************************************************************************)
FlagIsTrue ==
  \A e \in Made : LET x == exams[e].publication IN
    IF x.isPublished
      THEN x.visibility = "PUBLIC" /\ x.since # None /\ (x.at = None \/ x.at \in 0..now)
      ELSE x.visibility = "PUBLIC" => x.at # None
=============================================================================
