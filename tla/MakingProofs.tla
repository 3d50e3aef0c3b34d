------------------------------ MODULE MakingProofs ------------------------------
(***************************************************************************)
(* What is proved about the making of exams (ExamMaking): that an exam has *)
(* what its counts say and a STRICT one what was asked for, that its       *)
(* threshold is within its points and that isPublished is true of it, for  *)
(* every bank, every order, every number of requests at a time; and that   *)
(* the modules about questions and exams hold together as MCBank composes  *)
(* them.                                                                   *)
(***************************************************************************)
EXTENDS BankProofs

-----------------------------------------------------------------------------
(* Counting                                                                 *)

LEMMA MakingCounts ==
  /\ \A T : M!IsFiniteSet(T) <=> IsFiniteSet(T)
  /\ \A T : M!Cardinality(T) = Cardinality(T)
<1>1. \A T : M!IsFiniteSet(T) <=> IsFiniteSet(T)
  BY DEF M!IsFiniteSet, IsFiniteSet
<1>2. \A T : M!Cardinality(T) = Cardinality(T)
  BY DEF M!Cardinality, Cardinality
<1> QED
  BY <1>1, <1>2

\* What is drawn can be counted.
LEMMA DrawnCount ==
  \A T \in SUBSET M!Drawn : IsFiniteSet(T) /\ Cardinality(T) \in Nat
<1>1. IsFiniteSet(Drawable) /\ IsFiniteSet(Class)
  BY MakingAssumption, MakingCounts DEF M!ConstantsAssumption
<1>2. IsFiniteSet(M!Drawn)
  BY <1>1, FS_Product DEF M!Drawn
<1> QED
  BY <1>2, FS_Subset, FS_CardinalityType

\* A question is drawn once.
OneEach(drawn) == \A d, f \in drawn : d[1] = f[1] => d = f

LEMMA FoundOnce ==
  ASSUME NEW classes, NEW except
  PROVE  /\ M!Found(classes, except) \in SUBSET M!Drawn /\ OneEach(M!Found(classes, except))
         /\ \A d \in M!Found(classes, except) : d[1] \notin except
<1>1. \A d, f \in M!Drawn : d[1] = f[1] /\ d[2] = f[2] => d = f
  BY DEF M!Drawn
<1>2. \A d, f \in M!Found(classes, except) : d[1] = f[1] => d[2] = f[2]
  BY DEF M!Found
<1>3. M!Found(classes, except) \in SUBSET M!Drawn
  BY DEF M!Found
<1>4. \A d \in M!Found(classes, except) : d[1] \notin except
  BY DEF M!Found
<1> QED
  BY <1>1, <1>2, <1>3, <1>4 DEF OneEach

\* What another query draws adds to what is drawn.
LEMMA DrawnTogether ==
  ASSUME NEW picked \in SUBSET M!Drawn, OneEach(picked), NEW classes,
         NEW drawn \in SUBSET M!Found(classes, M!Ids(picked))
  PROVE  /\ picked \cup drawn \in SUBSET M!Drawn /\ OneEach(picked \cup drawn)
         /\ Cardinality(picked \cup drawn) = Cardinality(picked) + Cardinality(drawn)
         /\ Cardinality(drawn) \in Nat
<1>1. /\ drawn \in SUBSET M!Drawn /\ OneEach(drawn)
      /\ \A d \in drawn : d[1] \notin M!Ids(picked)
  BY FoundOnce DEF OneEach
<1>2. \A d \in picked : d[1] \in M!Ids(picked)
  BY DEF M!Ids
<1>3. \A d \in picked, f \in drawn : d[1] # f[1]
  BY <1>1, <1>2
<1>4. OneEach(picked \cup drawn)
  BY <1>1, <1>3 DEF OneEach
<1>5. picked \cap drawn = {}
  BY <1>3
<1>6. Cardinality(picked \cap drawn) = 0
  BY <1>5, FS_EmptySet
<1>7. /\ IsFiniteSet(picked) /\ IsFiniteSet(drawn)
      /\ Cardinality(picked) \in Nat /\ Cardinality(drawn) \in Nat
  BY <1>1, DrawnCount
<1>8. Cardinality(picked \cup drawn)
        = Cardinality(picked) + Cardinality(drawn) - Cardinality(picked \cap drawn)
  BY <1>7, FS_Union
<1>9. Cardinality(picked \cup drawn) = Cardinality(picked) + Cardinality(drawn)
  BY <1>6, <1>7, <1>8
<1> QED
  BY <1>1, <1>4, <1>7, <1>9

LEMMA AnyOfCounts ==
  ASSUME NEW T, IsFiniteSet(T), NEW n \in Nat, NEW drawn \in M!AnyOf(T, n)
  PROVE  drawn \in SUBSET T /\ Cardinality(drawn) \in Nat /\ Cardinality(drawn) <= n
<1>1. drawn \in SUBSET T /\ M!Cardinality(drawn) = M!Lesser(n, M!Cardinality(T))
  BY DEF M!AnyOf, M!kSubset
<1>2. Cardinality(drawn) = M!Lesser(n, Cardinality(T)) /\ Cardinality(T) \in Nat
  BY <1>1, MakingCounts, FS_CardinalityType
<1> QED
  BY <1>1, <1>2 DEF M!Lesser

\* Each question of a draw has an id of its own.
LEMMA IdsCount ==
  ASSUME NEW drawn \in SUBSET M!Drawn, OneEach(drawn)
  PROVE  Cardinality(M!Ids(drawn)) = Cardinality(drawn)
<1> DEFINE f == [d \in drawn |-> d[1]]
<1>1. f \in Bijection(drawn, M!Ids(drawn))
  <2>1. f \in [drawn -> M!Ids(drawn)]
    BY DEF M!Ids
  <2>2. \A d, e \in drawn : f[d] = f[e] => d = e
    BY DEF OneEach
  <2>3. \A i \in M!Ids(drawn) : \E d \in drawn : f[d] = i
    BY DEF M!Ids
  <2> QED
    BY <2>1, <2>2, <2>3 DEF Bijection, Injection, Surjection, IsInjective
<1>2. ExistsBijection(drawn, M!Ids(drawn))
  BY <1>1 DEF ExistsBijection
<1>3. IsFiniteSet(drawn)
  BY DrawnCount
<1> QED
  BY <1>2, <1>3, FS_Bijection

\* What rules ask for, as pairs to count.
Pairs(rules) == {pt \in rules \X (1..MaxDraw) : pt[2] <= pt[1].count}

LEMMA RulesCount ==
  ASSUME NEW rules \in SUBSET Rule
  PROVE  /\ M!Counts(rules) = Cardinality(Pairs(rules)) /\ IsFiniteSet(Pairs(rules))
         /\ Cardinality(Pairs(rules)) \in Nat
<1>1. M!Counts(rules) = Cardinality(Pairs(rules))
  BY MakingCounts DEF M!Counts, Pairs
<1>2. IsFiniteSet(Rule) /\ MaxDraw \in Nat
  BY MakingAssumption, MakingCounts DEF M!ConstantsAssumption
<1>3. IsFiniteSet(rules) /\ IsFiniteSet(1..MaxDraw)
  BY <1>2, FS_Subset, FS_Interval
<1>4. IsFiniteSet(rules \X (1..MaxDraw))
  BY <1>3, FS_Product
<1>5. Pairs(rules) \in SUBSET (rules \X (1..MaxDraw))
  BY DEF Pairs
<1>6. IsFiniteSet(Pairs(rules))
  BY <1>4, <1>5, FS_Subset
<1> QED
  BY <1>1, <1>6, FS_CardinalityType

\* One rule asks for its count.
LEMMA RuleCounts ==
  ASSUME NEW r \in Rule
  PROVE  Cardinality(Pairs({r})) = r.count
<1>1. r.count \in Nat /\ r.count <= MaxDraw /\ MaxDraw \in Nat
  BY MakingAssumption DEF M!ConstantsAssumption
<1> DEFINE f == [i \in 1..r.count |-> <<r, i>>]
<1>2. f \in Bijection(1..r.count, Pairs({r}))
  <2>1. \A i \in 1..r.count : f[i] \in Pairs({r})
    BY <1>1 DEF Pairs
  <2>2. f \in [1..r.count -> Pairs({r})]
    BY <2>1
  <2>3. \A i, j \in 1..r.count : f[i] = f[j] => i = j
    OBVIOUS
  <2>4. \A pt \in Pairs({r}) : \E i \in 1..r.count : f[i] = pt
    <3> TAKE pt \in Pairs({r})
    <3>1. PICK i \in 1..MaxDraw : pt = <<r, i>>
      BY DEF Pairs
    <3>2. i <= r.count
      BY <3>1 DEF Pairs
    <3>3. i \in 1..r.count
      BY <1>1, <3>2
    <3> QED
      BY <3>1, <3>3
  <2> QED
    BY <2>2, <2>3, <2>4 DEF Bijection, Injection, Surjection, IsInjective
<1>3. ExistsBijection(1..r.count, Pairs({r}))
  BY <1>2 DEF ExistsBijection
<1>4. IsFiniteSet(1..r.count) /\ Cardinality(1..r.count) = r.count
  <2>1. \A n \in Nat : IsFiniteSet(1..n) /\ Cardinality(1..n) = n
    BY FS_Interval
  <2> QED
    BY <1>1, <2>1
<1> QED
  BY <1>3, <1>4, FS_Bijection

\* A rule more adds its count.
LEMMA CountsAdd ==
  ASSUME NEW rules \in SUBSET Rule, NEW todo \in SUBSET rules, NEW r \in todo
  PROVE  M!Counts(rules \ (todo \ {r})) = M!Counts(rules \ todo) + r.count
<1> DEFINE before == rules \ todo
           after == rules \ (todo \ {r})
<1>1. after = before \cup {r} /\ r \notin before /\ r \in Rule /\ before \in SUBSET Rule
      /\ after \in SUBSET Rule /\ {r} \in SUBSET Rule
  OBVIOUS
<1>2. Pairs(after) = Pairs(before) \cup Pairs({r}) /\ Pairs(before) \cap Pairs({r}) = {}
  <2>1. \A R \in SUBSET Rule : \A pt : pt \in Pairs(R) <=>
          /\ pt \in R \X (1..MaxDraw) /\ pt[2] <= pt[1].count
    BY DEF Pairs
  <2>2. \A pt : pt \in after \X (1..MaxDraw) <=>
          pt \in before \X (1..MaxDraw) \/ pt \in {r} \X (1..MaxDraw)
    BY <1>1
  <2>3. \A pt : ~(pt \in before \X (1..MaxDraw) /\ pt \in {r} \X (1..MaxDraw))
    BY <1>1
  <2> HIDE DEF before, after
  <2>4. \A pt : pt \in Pairs(after) <=> pt \in Pairs(before) \/ pt \in Pairs({r})
    BY <1>1, <2>1, <2>2
  <2>5. \A pt : ~(pt \in Pairs(before) /\ pt \in Pairs({r}))
    BY <1>1, <2>1, <2>3
  <2> QED
    BY <2>4, <2>5
<1> HIDE DEF before, after
<1>3. /\ IsFiniteSet(Pairs(before)) /\ IsFiniteSet(Pairs({r}))
      /\ Cardinality(Pairs(before)) \in Nat /\ Cardinality(Pairs({r})) \in Nat
  BY <1>1, RulesCount
<1>4. Cardinality(Pairs(before) \cap Pairs({r})) = 0
  BY <1>2, FS_EmptySet
<1>5. Cardinality(Pairs(before) \cup Pairs({r})) =
        Cardinality(Pairs(before)) + Cardinality(Pairs({r}))
          - Cardinality(Pairs(before) \cap Pairs({r}))
  BY <1>3, FS_Union
<1>6. Cardinality(Pairs(after)) = Cardinality(Pairs(before)) + r.count
  <2>1. Cardinality(Pairs({r})) = r.count
    BY <1>1, RuleCounts
  <2> QED
    BY <1>2, <1>3, <1>4, <1>5, <2>1
<1>7. M!Counts(after) = M!Counts(before) + r.count
  BY <1>1, <1>6, RulesCount
<1> QED
  BY <1>7 DEF before, after

\* Draws of each class within what is asked, and no fewer in all, draw what is asked.
LEMMA LevelsAreFull ==
  ASSUME NEW picked \in SUBSET M!Drawn, NEW want \in [Class -> 0..MaxDraw],
         \A c \in Class : Cardinality(M!OfClass(picked, c)) <= want[c],
         M!Total(want) <= Cardinality(picked)
  PROVE  \A c \in Class : Cardinality(M!OfClass(picked, c)) = want[c]
<1> DEFINE k == [c \in Class |-> Cardinality(M!OfClass(picked, c))]
           W == {pt \in Class \X (1..MaxDraw) : pt[2] <= want[pt[1]]}
           K == {pt \in Class \X (1..MaxDraw) : pt[2] <= k[pt[1]]}
<1>1. IsFiniteSet(Class) /\ MaxDraw \in Nat
  BY MakingAssumption, MakingCounts DEF M!ConstantsAssumption
<1>2. \A c \in Class : /\ M!OfClass(picked, c) \in SUBSET M!Drawn
                       /\ IsFiniteSet(M!OfClass(picked, c)) /\ k[c] \in Nat
  <2>1. \A c \in Class : M!OfClass(picked, c) \in SUBSET M!Drawn
    BY DEF M!OfClass
  <2> QED
    BY <2>1, DrawnCount
<1>3. \A c \in Class : k[c] <= want[c] /\ want[c] \in 0..MaxDraw
  OBVIOUS
<1>4. IsFiniteSet(W) /\ Cardinality(W) = M!Total(want)
  <2>1. IsFiniteSet(1..MaxDraw)
    BY <1>1, FS_Interval
  <2>2. IsFiniteSet(Class \X (1..MaxDraw))
    BY <1>1, <2>1, FS_Product
  <2>3. W \in SUBSET (Class \X (1..MaxDraw))
    OBVIOUS
  <2>4. IsFiniteSet(W)
    BY <2>2, <2>3, FS_Subset
  <2> QED
    BY <2>4, MakingCounts DEF M!Total
<1>5. K \in SUBSET W
  <2>1. \A c \in Class, i \in 1..MaxDraw : i <= k[c] => i <= want[c]
    BY <1>2, <1>3
  <2> HIDE DEF k
  <2> QED
    BY <2>1
<1>6. IsFiniteSet(K)
  BY <1>4, <1>5, FS_Subset
<1>7. Cardinality(picked) <= Cardinality(K)
  <2>1. \A c \in Class : \E g : g \in Injection(M!OfClass(picked, c), 1..k[c])
    <3> TAKE c \in Class
    <3>1. ExistsBijection(1..k[c], M!OfClass(picked, c))
      BY <1>2, FS_CardinalityType
    <3>2. PICK g : g \in Bijection(1..k[c], M!OfClass(picked, c))
      BY <3>1 DEF ExistsBijection
    <3>3. \A d \in M!OfClass(picked, c) : \E i \in 1..k[c] : g[i] = d
      BY <3>2 DEF Bijection, Surjection
    <3> DEFINE h == [d \in M!OfClass(picked, c) |-> CHOOSE i \in 1..k[c] : g[i] = d]
    <3>4. \A d \in M!OfClass(picked, c) : h[d] \in 1..k[c] /\ g[h[d]] = d
      BY <3>3
    <3>5. h \in [M!OfClass(picked, c) -> 1..k[c]]
      BY <3>4
    <3>6. \A d, e \in M!OfClass(picked, c) : h[d] = h[e] => d = e
      BY <3>4
    <3> HIDE DEF h
    <3> QED
      BY <3>5, <3>6 DEF Injection, IsInjective
  <2> DEFINE f == [c \in Class |-> CHOOSE g : g \in Injection(M!OfClass(picked, c), 1..k[c])]
             h == [d \in picked |-> <<d[2], f[d[2]][d]>>]
  <2>2. \A c \in Class : f[c] \in Injection(M!OfClass(picked, c), 1..k[c])
    BY <2>1
  <2> HIDE DEF f
  <2>3. \A c \in Class : /\ \A d \in M!OfClass(picked, c) : f[c][d] \in 1..k[c]
                         /\ \A d, e \in M!OfClass(picked, c) : f[c][d] = f[c][e] => d = e
    BY <2>2 DEF Injection, IsInjective
  <2>4. \A d \in picked : d[2] \in Class /\ d \in M!OfClass(picked, d[2])
    BY DEF M!OfClass, M!Drawn
  <2>5. \A d \in picked : h[d] \in K
    <3> TAKE d \in picked
    <3>1. d[2] \in Class /\ f[d[2]][d] \in 1..k[d[2]]
      BY <2>3, <2>4
    <3>2. k[d[2]] \in Nat /\ k[d[2]] <= MaxDraw
      BY <1>1, <1>2, <1>3, <3>1
    <3> HIDE DEF k
    <3>3. f[d[2]][d] \in 1..MaxDraw /\ f[d[2]][d] <= k[d[2]]
      BY <1>1, <3>1, <3>2
    <3>4. <<d[2], f[d[2]][d]>> \in K
      BY <3>1, <3>3
    <3> QED
      BY <3>4
  <2>6. \A d, e \in picked : h[d] = h[e] => d = e
    BY <2>3, <2>4
  <2>7. h \in [picked -> K]
    BY <2>5
  <2> HIDE DEF h
  <2>8. h \in Injection(picked, K)
    BY <2>6, <2>7 DEF Injection, IsInjective
  <2> QED
    BY <1>6, <2>8, FS_Injection
<1>8. Cardinality(K) = Cardinality(W)
  <2>1. Cardinality(K) <= Cardinality(W) /\ Cardinality(K) \in Nat /\ Cardinality(W) \in Nat
    BY <1>4, <1>5, <1>6, FS_Subset, FS_CardinalityType
  <2>2. Cardinality(picked) \in Nat
    BY DrawnCount
  <2> HIDE DEF K, W
  <2> QED
    BY <1>4, <1>7, <2>1, <2>2
<1>9. K = W
  BY <1>4, <1>5, <1>8, FS_Subset
<1>10. ASSUME NEW c \in Class PROVE k[c] = want[c]
  <2>1. k[c] \in Nat /\ k[c] <= want[c] /\ want[c] \in 0..MaxDraw
    BY <1>2, <1>3
  <2>2. CASE want[c] = 0
    BY <2>1, <2>2
  <2>3. CASE want[c] # 0
    <3>1. <<c, want[c]>> \in Class \X (1..MaxDraw) /\ want[c] <= want[c]
      BY <1>1, <2>1, <2>3
    <3>2. <<c, want[c]>> \in W
      BY <3>1
    <3>3. <<c, want[c]>> \in K
      BY <1>9, <3>2
    <3>4. want[c] <= k[c]
      BY <3>3
    <3> QED
      BY <1>1, <2>1, <3>4
  <2> QED
    BY <2>2, <2>3
<1> QED
  BY <1>10

-----------------------------------------------------------------------------
(* The invariant                                                            *)

\* A STRICT draw has what was asked for.
Exact(order, picked, n) ==
  IF order.rules = {}
    THEN \A c \in Class : Cardinality(M!OfClass(picked, c)) = order.want[c]
    ELSE n = M!Counts(order.rules)

\* What a request that draws has drawn so far.
DrawOk(x) ==
  /\ x.pc \in {"count", "rank"} => x.order.rules = {}
  /\ x.pc = "rank" => \A c \in Class : x.limit[c] <= x.order.want[c]
  /\ x.pc \in {"rules", "more", "problems", "create"} =>
       OneEach(x.picked) /\ x.n = Cardinality(x.picked)
  /\ x.pc = "rules" /\ x.order.strict =>
       /\ x.order.rules # {} /\ x.todo \subseteq x.order.rules
       /\ x.n = M!Counts(x.order.rules \ x.todo)
  /\ x.pc = "more" => ~x.order.strict
  /\ x.pc = "problems" /\ x.order.strict => Exact(x.order, x.picked, x.n)
  /\ x.pc = "create" => x.order = None \/ (x.order.strict =>
       Exact(x.order, x.picked, x.n) /\ Cardinality(x.chosen) = x.order.problems)

\* What is drawn for an exam is what its row says, within which its threshold is.
RowOk(r) ==
  /\ OneEach(r.items) /\ r.questionCount = Cardinality(r.items)
  /\ r.problemCount = Cardinality(r.problems)
  /\ r.order = None \/ (r.order.strict =>
       Exact(r.order, r.items, r.questionCount) /\ r.problemCount = r.order.problems)
  /\ r.threshold # None =>
       r.type = "EXAM" /\ r.threshold <= r.questionCount + r.problemCount

\* isPublished agrees with visibility and publishAt.
TrueAt(x, t) ==
  IF x.isPublished
    THEN x.visibility = "PUBLIC" /\ x.since # None /\ (x.at = None \/ x.at \in 0..t)
    ELSE x.visibility = "PUBLIC" => x.at # None

MakingTyped ==
  /\ bank \in [Drawable -> Class \cup {"hidden", "gone"}]
  /\ problems \in [Problem -> {"published", "hidden", "gone"}]
  /\ exams \in [Paper -> M!Row \cup {None}]
  /\ proc \in [Request -> M!Local]
  /\ now \in M!Time

MakingInv ==
  /\ MakingTyped
  /\ \A p \in Request : DrawOk(proc[p])
  /\ \A e \in M!Made : RowOk(exams[e]) /\ TrueAt(exams[e].publication, now)

\* What a request holds goes with where it is.
LEMMA MakingLocals ==
  ASSUME NEW x \in M!Local
  PROVE  /\ x.pc \in {"count", "rank", "rules", "more", "problems"} => x.order \in M!Order
         /\ x.pc \in {"rules", "more", "problems", "create"} =>
              x.picked \in SUBSET M!Drawn /\ x.n \in Nat
         /\ x.pc = "rank" => x.limit \in [Class -> Nat]
         /\ x.pc \in {"rules", "more"} => x.todo \in SUBSET Rule
         /\ x.pc = "more" => x.from \in SUBSET Class /\ x.lacks \in Nat
         /\ x.pc = "create" => x.order \in M!Order \cup {None} /\ x.chosen \in SUBSET Problem
         /\ x.pc = "update" => /\ x.exam \in Paper /\ x.type \in M!Type /\ x.threshold \in M!Score
                               /\ x.publication \in M!Publication
         /\ x.pc = "remove" => x.exam \in Paper
<1>1. x.pc \in {"count", "problems"} => x.order \in M!Order /\ x.picked \in SUBSET M!Drawn /\ x.n \in Nat
  BY DEF M!Local, M!Idle, M!Draw
<1>2. x.pc = "rank" => x.order \in M!Order /\ x.limit \in [Class -> Nat]
  BY DEF M!Local, M!Idle, M!Draw
<1>3. x.pc = "rules" => /\ x.order \in M!Order /\ x.picked \in SUBSET M!Drawn /\ x.n \in Nat
                        /\ x.todo \in SUBSET Rule
  BY DEF M!Local, M!Idle, M!Draw
<1>4. x.pc = "more" => /\ x.order \in M!Order /\ x.picked \in SUBSET M!Drawn /\ x.n \in Nat
                       /\ x.todo \in SUBSET Rule /\ x.from \in SUBSET Class /\ x.lacks \in Nat
  BY DEF M!Local, M!Idle, M!Draw
<1>5. x.pc = "create" => /\ x.order \in M!Order \cup {None} /\ x.picked \in SUBSET M!Drawn
                         /\ x.n \in Nat /\ x.chosen \in SUBSET Problem
  BY DEF M!Local, M!Idle, M!Draw
<1>6. x.pc = "update" => /\ x.exam \in Paper /\ x.type \in M!Type /\ x.threshold \in M!Score
                         /\ x.publication \in M!Publication
  BY DEF M!Local, M!Idle, M!Draw
<1>7. x.pc = "remove" => x.exam \in Paper
  BY DEF M!Local, M!Idle, M!Draw
<1> QED
  BY <1>1, <1>2, <1>3, <1>4, <1>5, <1>6, <1>7

\* The places of a request.
LEMMA MakingPlaces ==
  /\ M!Idle \in M!Local /\ M!Idle.pc = "idle" /\ DrawOk(M!Idle)
  /\ \A order \in M!Order, picked \in SUBSET M!Drawn, n \in Nat :
       /\ [pc |-> "count", order |-> order, picked |-> picked, n |-> n] \in M!Local
       /\ [pc |-> "problems", order |-> order, picked |-> picked, n |-> n] \in M!Local
       /\ \A todo \in SUBSET Rule :
            /\ [pc |-> "rules", order |-> order, picked |-> picked, n |-> n, todo |-> todo] \in M!Local
            /\ \A from \in SUBSET Class, lacks \in Nat :
                 [pc |-> "more", order |-> order, picked |-> picked, n |-> n, todo |-> todo,
                  from |-> from, lacks |-> lacks] \in M!Local
  /\ \A order \in M!Order, limit \in [Class -> Nat] :
       [pc |-> "rank", order |-> order, limit |-> limit] \in M!Local
  /\ \A order \in M!Order \cup {None}, picked \in SUBSET M!Drawn, n \in Nat, chosen \in SUBSET Problem :
       [pc |-> "create", order |-> order, picked |-> picked, n |-> n, chosen |-> chosen] \in M!Local
<1>1. M!Idle \in M!Local /\ M!Idle.pc = "idle"
  BY DEF M!Local, M!Idle
<1>2. DrawOk(M!Idle)
  BY <1>1 DEF DrawOk
<1>3. ASSUME NEW order \in M!Order, NEW picked \in SUBSET M!Drawn, NEW n \in Nat
      PROVE  /\ [pc |-> "count", order |-> order, picked |-> picked, n |-> n] \in M!Local
             /\ [pc |-> "problems", order |-> order, picked |-> picked, n |-> n] \in M!Local
  BY DEF M!Local, M!Draw
<1>4. ASSUME NEW order \in M!Order, NEW picked \in SUBSET M!Drawn, NEW n \in Nat,
             NEW todo \in SUBSET Rule
      PROVE  [pc |-> "rules", order |-> order, picked |-> picked, n |-> n, todo |-> todo] \in M!Local
  BY DEF M!Local
<1>5. ASSUME NEW order \in M!Order, NEW picked \in SUBSET M!Drawn, NEW n \in Nat,
             NEW todo \in SUBSET Rule, NEW from \in SUBSET Class, NEW lacks \in Nat
      PROVE  [pc |-> "more", order |-> order, picked |-> picked, n |-> n, todo |-> todo,
              from |-> from, lacks |-> lacks] \in M!Local
  BY DEF M!Local
<1>6. ASSUME NEW order \in M!Order, NEW limit \in [Class -> Nat]
      PROVE  [pc |-> "rank", order |-> order, limit |-> limit] \in M!Local
  BY DEF M!Local
<1>7. ASSUME NEW order \in M!Order \cup {None}, NEW picked \in SUBSET M!Drawn, NEW n \in Nat,
             NEW chosen \in SUBSET Problem
      PROVE  [pc |-> "create", order |-> order, picked |-> picked, n |-> n,
              chosen |-> chosen] \in M!Local
  BY DEF M!Local
<1> QED
  BY <1>1, <1>2, <1>3, <1>4, <1>5, <1>6, <1>7

\* A request goes on, and nothing else happens.
Asking(p) ==
  /\ M!Asks
  /\ \E next \in M!Local : DrawOk(next) /\ M!Goto(p, next)

LEMMA MakingMoves ==
  ASSUME MakingInv, NEW p \in Request, NEW next \in M!Local, DrawOk(next), M!Goto(p, next)
  PROVE  proc' \in [Request -> M!Local] /\ \A q \in Request : DrawOk(proc'[q])
  BY DEF MakingInv, MakingTyped, M!Goto

LEMMA AskingKeeps ==
  ASSUME MakingInv, NEW p \in Request, Asking(p)
  PROVE  MakingInv'
<1>1. UNCHANGED <<bank, problems, exams, now>>
  BY DEF Asking, M!Asks
<1>2. proc' \in [Request -> M!Local] /\ \A q \in Request : DrawOk(proc'[q])
  BY MakingMoves DEF Asking
<1>3. MakingTyped'
  BY <1>1, <1>2 DEF MakingInv, MakingTyped
<1>4. M!Made' = M!Made
  BY <1>1 DEF M!Made
<1>5. \A e \in M!Made' : RowOk(exams'[e]) /\ TrueAt(exams'[e].publication, now')
  BY <1>1, <1>4 DEF MakingInv
<1> QED
  BY <1>2, <1>3, <1>5 DEF MakingInv

-----------------------------------------------------------------------------
(* Draws                                                                    *)

LEMMA OrderFacts ==
  ASSUME NEW order \in M!Order
  PROVE  /\ order.strict \in BOOLEAN /\ order.want \in [Class -> 0..MaxDraw]
         /\ order.rules \in SUBSET Rule /\ order.problems \in Nat
         /\ order.rules = {} => M!Asked(order) = M!Total(order.want)
<1>1. IsFiniteSet(Problem)
  BY MakingAssumption, MakingCounts DEF M!ConstantsAssumption
<1>2. M!Cardinality(Problem) \in Nat
  BY <1>1, MakingCounts, FS_CardinalityType
<1>3. order.problems \in 0..M!Cardinality(Problem)
  BY DEF M!Order
<1>4. order.problems \in Nat
  BY <1>2, <1>3
<1>5. /\ order.strict \in BOOLEAN /\ order.want \in [Class -> 0..MaxDraw]
      /\ order.rules \in SUBSET Rule
  BY DEF M!Order
<1> QED
  BY <1>4, <1>5 DEF M!Asked

LEMMA NothingDrawn ==
  {} \in SUBSET M!Drawn /\ OneEach({}) /\ Cardinality({}) = 0 /\ M!Counts({}) = 0
<1>1. Pairs({}) = {}
  BY DEF Pairs
<1>2. M!Counts({}) = 0
  BY <1>1, RulesCount, FS_EmptySet
<1> QED
  BY <1>2, FS_EmptySet DEF OneEach

\* A draw that goes on.
LEMMA Continues ==
  ASSUME MakingInv, NEW p \in Request, NEW order \in M!Order, NEW picked \in SUBSET M!Drawn,
         NEW n, NEW todo \in SUBSET Rule,
         OneEach(picked), n = Cardinality(picked),
         order.strict /\ todo # {} =>
           order.rules # {} /\ todo \subseteq order.rules /\ n = M!Counts(order.rules \ todo),
         order.strict /\ todo = {} => Exact(order, picked, n),
         M!Continue(p, order, picked, n, todo), M!Asks
  PROVE  Asking(p)
<1>1. n \in Nat
  BY DrawnCount
<1>2. CASE todo # {}
  <2> DEFINE next == [pc |-> "rules", order |-> order, picked |-> picked, n |-> n, todo |-> todo]
  <2>1. M!Goto(p, next)
    BY <1>2 DEF M!Continue
  <2>2. next \in M!Local
    BY <1>1, MakingPlaces
  <2>3. DrawOk(next)
    BY <1>2 DEF DrawOk
  <2> HIDE DEF next
  <2> QED
    BY <2>1, <2>2, <2>3 DEF Asking
<1>3. CASE todo = {}
  <2> DEFINE next == [pc |-> "problems", order |-> order, picked |-> picked, n |-> n]
  <2>1. M!Goto(p, next)
    BY <1>3 DEF M!Continue
  <2>2. next \in M!Local
    BY <1>1, MakingPlaces
  <2>3. DrawOk(next)
    BY <1>3 DEF DrawOk
  <2> HIDE DEF next
  <2> QED
    BY <2>1, <2>2, <2>3 DEF Asking
<1> QED
  BY <1>2, <1>3

\* A FLEXIBLE draw that looks elsewhere.
LEMMA LooksForMore ==
  ASSUME MakingInv, NEW p \in Request, NEW order \in M!Order, NEW picked \in SUBSET M!Drawn,
         NEW n, NEW todo \in SUBSET Rule, NEW from \in SUBSET Class, NEW lacks \in Nat,
         OneEach(picked), n = Cardinality(picked), ~order.strict,
         M!LookForMore(p, order, picked, n, todo, from, lacks), M!Asks
  PROVE  Asking(p)
<1> DEFINE next == [pc |-> "more", order |-> order, picked |-> picked, n |-> n, todo |-> todo,
                    from |-> from, lacks |-> lacks]
<1>1. n \in Nat
  BY DrawnCount
<1>2. M!Goto(p, next)
  BY DEF M!LookForMore
<1>3. next \in M!Local
  BY <1>1, MakingPlaces
<1>4. DrawOk(next)
  BY DEF DrawOk
<1> HIDE DEF next
<1> QED
  BY <1>2, <1>3, <1>4 DEF Asking

LEMMA Ends ==
  ASSUME NEW p \in Request, M!End(p), M!Asks
  PROVE  Asking(p)
  BY MakingPlaces DEF Asking, M!End

LEMMA BeginsDraw ==
  ASSUME MakingInv, NEW p \in Request, NEW order \in M!Order, M!CreateBegin(p, order)
  PROVE  Asking(p)
<1>1. M!Asks
  BY DEF M!CreateBegin, M!Start
<1>2. CASE order.rules = {}
  <2> DEFINE next == [pc |-> "count", order |-> order, picked |-> {}, n |-> 0]
  <2>1. M!Goto(p, next)
    BY <1>2 DEF M!CreateBegin, M!Start
  <2>2. next \in M!Local
    BY NothingDrawn, MakingPlaces
  <2>3. DrawOk(next)
    BY <1>2 DEF DrawOk
  <2> HIDE DEF next
  <2> QED
    BY <1>1, <2>1, <2>2, <2>3 DEF Asking
<1>3. CASE order.rules # {}
  <2> DEFINE next == [pc |-> "rules", order |-> order, picked |-> {}, n |-> 0, todo |-> order.rules]
  <2>1. M!Goto(p, next)
    BY <1>3 DEF M!CreateBegin, M!Start
  <2>2. next \in M!Local
    BY NothingDrawn, MakingPlaces, OrderFacts
  <2>3. order.rules \ order.rules = {}
    OBVIOUS
  <2>4. DrawOk(next)
    BY <1>3, <2>3, NothingDrawn DEF DrawOk
  <2> HIDE DEF next
  <2> QED
    BY <1>1, <2>1, <2>2, <2>4 DEF Asking
<1> QED
  BY <1>2, <1>3

LEMMA CountsLevels ==
  ASSUME MakingInv, NEW p \in Request, M!CountLevels(p)
  PROVE  Asking(p)
<1> DEFINE x == proc[p]
           there == [c \in Class |-> M!Cardinality(M!Found({c}, {}))]
           limit == [c \in Class |-> M!Lesser(x.order.want[c], there[c])]
           next == [pc |-> "rank", order |-> x.order, limit |-> limit]
<1>1. M!Asks /\ x.pc = "count" /\ x \in M!Local /\ DrawOk(x)
  BY DEF M!CountLevels, MakingInv, MakingTyped
<1>2. x.order \in M!Order /\ x.order.rules = {}
  BY <1>1, MakingLocals DEF DrawOk
<1>3. x.order.want \in [Class -> 0..MaxDraw] /\ MaxDraw \in Nat
  BY <1>2, OrderFacts, MakingAssumption DEF M!ConstantsAssumption
<1>4. \A c \in Class : there[c] \in Nat
  BY FoundOnce, DrawnCount, MakingCounts
<1>5. \A c \in Class : x.order.want[c] \in Nat
  BY <1>3
<1>6. M!End(p) \/ M!Goto(p, next)
  BY DEF M!CountLevels
<1> HIDE DEF there, x
<1>7. limit \in [Class -> Nat] /\ \A c \in Class : limit[c] <= x.order.want[c]
  BY <1>4, <1>5 DEF M!Lesser
<1> HIDE DEF limit
<1>8. next \in M!Local
  BY <1>2, <1>7, MakingPlaces
<1>9. DrawOk(next)
  BY <1>2, <1>7 DEF DrawOk
<1> HIDE DEF next
<1> QED
  BY <1>1, <1>6, <1>8, <1>9, Ends DEF Asking

LEMMA RanksLevels ==
  ASSUME MakingInv, NEW p \in Request, M!RankLevels(p)
  PROVE  Asking(p)
<1> DEFINE x == proc[p]
           order == x.order
<1>1. M!Asks /\ x.pc = "rank" /\ x \in M!Local /\ DrawOk(x)
  BY DEF M!RankLevels, MakingInv, MakingTyped
<1>2. /\ order \in M!Order /\ order.rules = {} /\ x.limit \in [Class -> Nat]
      /\ \A c \in Class : x.limit[c] <= order.want[c]
  BY <1>1, MakingLocals DEF DrawOk
<1>3. /\ order.want \in [Class -> 0..MaxDraw] /\ MaxDraw \in Nat
      /\ order.strict \in BOOLEAN /\ M!Asked(order) = M!Total(order.want)
  BY <1>2, OrderFacts, MakingAssumption DEF M!ConstantsAssumption
<1>4. PICK picked \in SUBSET M!Found(Class, {}) :
        /\ \A c \in Class : M!Cardinality(M!OfClass(picked, c))
                              = M!Lesser(x.limit[c], M!Cardinality(M!Found({c}, {})))
        /\ IF M!Rejected(order, M!Cardinality(picked)) THEN M!End(p)
           ELSE IF M!Cardinality(picked) < M!Total(order.want)
             THEN M!LookForMore(p, order, picked, M!Cardinality(picked), {}, Class,
                                M!Lacks(M!Total(order.want), M!Cardinality(picked)))
             ELSE M!Continue(p, order, picked, M!Cardinality(picked), {})
  BY DEF M!RankLevels
<1> DEFINE n == M!Cardinality(picked)
<1>5. picked \in SUBSET M!Drawn /\ OneEach(picked)
  BY FoundOnce DEF OneEach
<1>6. n = Cardinality(picked) /\ n \in Nat /\ M!Total(order.want) \in Nat
  <2>1. n = Cardinality(picked) /\ n \in Nat
    BY <1>5, DrawnCount, MakingCounts
  <2>2. IsFiniteSet(Class \X (1..MaxDraw))
    <3>1. IsFiniteSet(Class)
      BY MakingAssumption, MakingCounts DEF M!ConstantsAssumption
    <3>2. IsFiniteSet(1..MaxDraw)
      BY <1>3, FS_Interval
    <3> QED
      BY <3>1, <3>2, FS_Product
  <2>3. {pt \in Class \X (1..MaxDraw) : pt[2] <= order.want[pt[1]]}
          \in SUBSET (Class \X (1..MaxDraw))
    OBVIOUS
  <2>4. M!Total(order.want) \in Nat
    BY <2>2, <2>3, MakingCounts, FS_Subset, FS_CardinalityType DEF M!Total
  <2> QED
    BY <2>1, <2>4
<1>7. CASE M!Rejected(order, n)
  BY <1>1, <1>4, <1>7, Ends
<1>8. CASE ~M!Rejected(order, n) /\ n < M!Total(order.want)
  <2>1. ~order.strict
    BY <1>3, <1>8 DEF M!Rejected
  <2>2. M!Lacks(M!Total(order.want), n) \in Nat
    BY <1>6, <1>8 DEF M!Lacks
  <2>3. M!LookForMore(p, order, picked, n, {}, Class, M!Lacks(M!Total(order.want), n))
    BY <1>4, <1>8
  <2> HIDE DEF order, n, x
  <2> QED
    BY <1>1, <1>2, <1>5, <1>6, <2>1, <2>2, <2>3, LooksForMore
<1>9. CASE ~M!Rejected(order, n) /\ ~(n < M!Total(order.want))
  <2>1. M!Total(order.want) <= Cardinality(picked)
    BY <1>6, <1>9
  <2>2. \A c \in Class : Cardinality(M!OfClass(picked, c)) <= order.want[c]
    <3> TAKE c \in Class
    <3>1. Cardinality(M!OfClass(picked, c)) = M!Lesser(x.limit[c], M!Cardinality(M!Found({c}, {})))
      BY <1>4, MakingCounts
    <3>2. M!Cardinality(M!Found({c}, {})) \in Nat
      BY FoundOnce, DrawnCount, MakingCounts
    <3>3. x.limit[c] \in Nat /\ order.want[c] \in Nat /\ x.limit[c] <= order.want[c]
      BY <1>2, <1>3
    <3> HIDE DEF x, order
    <3> QED
      BY <3>1, <3>2, <3>3 DEF M!Lesser
  <2>3. Exact(order, picked, n)
    BY <1>2, <1>3, <1>5, <2>1, <2>2, LevelsAreFull DEF Exact
  <2>4. M!Continue(p, order, picked, n, {})
    BY <1>4, <1>9
  <2> HIDE DEF order, n, x
  <2> QED
    BY <1>1, <1>2, <1>5, <1>6, <2>3, <2>4, Continues
<1> QED
  BY <1>7, <1>8, <1>9

LEMMA DrawsByRule ==
  ASSUME MakingInv, NEW p \in Request, M!DrawByRule(p)
  PROVE  Asking(p)
<1> DEFINE x == proc[p]
           order == x.order
<1>1. M!Asks /\ x.pc = "rules" /\ x \in M!Local /\ DrawOk(x)
  BY DEF M!DrawByRule, MakingInv, MakingTyped
<1>2. /\ order \in M!Order /\ x.picked \in SUBSET M!Drawn /\ OneEach(x.picked)
      /\ x.todo \in SUBSET Rule /\ x.n = Cardinality(x.picked) /\ x.n \in Nat
  BY <1>1, MakingLocals DEF DrawOk
<1>3. /\ order.rules \in SUBSET Rule /\ order.strict \in BOOLEAN
      /\ order.strict => /\ order.rules # {} /\ x.todo \subseteq order.rules
                         /\ x.n = M!Counts(order.rules \ x.todo)
  BY <1>1, <1>2, OrderFacts DEF DrawOk
<1>0. PICK r \in x.todo : \E drawn \in M!AnyOf(M!Found(r.from, M!Ids(x.picked)), r.count) :
        LET n == M!Cardinality(drawn) IN
        IF n = r.count
          THEN M!Continue(p, order, x.picked \cup drawn, x.n + n, x.todo \ {r})
          ELSE IF order.strict THEN M!End(p)
          ELSE M!LookForMore(p, order, x.picked \cup drawn, x.n + n, x.todo \ {r}, r.other,
                             M!Lacks(r.count, n))
  BY DEF M!DrawByRule
<1>4. PICK drawn \in M!AnyOf(M!Found(r.from, M!Ids(x.picked)), r.count) :
        LET n == M!Cardinality(drawn) IN
        IF n = r.count
          THEN M!Continue(p, order, x.picked \cup drawn, x.n + n, x.todo \ {r})
          ELSE IF order.strict THEN M!End(p)
          ELSE M!LookForMore(p, order, x.picked \cup drawn, x.n + n, x.todo \ {r}, r.other,
                             M!Lacks(r.count, n))
  BY <1>0
<1> DEFINE n == M!Cardinality(drawn)
           picked == x.picked \cup drawn
           todo == x.todo \ {r}
<1>5. r \in Rule /\ r.count \in Nat /\ r.other \in SUBSET Class
  <2>1. r \in Rule
    BY <1>2
  <2> QED
    BY <2>1, MakingAssumption DEF M!ConstantsAssumption
<1>6. /\ drawn \in SUBSET M!Found(r.from, M!Ids(x.picked)) /\ n = Cardinality(drawn)
      /\ n \in Nat /\ n <= r.count
  <2>1. IsFiniteSet(M!Found(r.from, M!Ids(x.picked)))
    BY FoundOnce, DrawnCount
  <2> QED
    BY <1>5, <2>1, AnyOfCounts, MakingCounts
<1>7. /\ picked \in SUBSET M!Drawn /\ OneEach(picked) /\ x.n + n = Cardinality(picked)
  BY <1>2, <1>6, DrawnTogether
<1>8. todo \in SUBSET Rule
  BY <1>2
<1>9. CASE n = r.count
  <2>1. M!Continue(p, order, picked, x.n + n, todo)
    BY <1>4, <1>9
  <2>2. order.strict => todo \subseteq order.rules /\ order.rules # {}
                        /\ x.n + n = M!Counts(order.rules \ todo)
    <3> SUFFICES ASSUME order.strict
                 PROVE  todo \subseteq order.rules /\ order.rules # {}
                        /\ x.n + n = M!Counts(order.rules \ todo)
      OBVIOUS
    <3>1. M!Counts(order.rules \ todo) = M!Counts(order.rules \ x.todo) + r.count
      BY <1>3, CountsAdd
    <3> QED
      BY <1>3, <1>9, <3>1
  <2>3. order.strict /\ todo = {} => Exact(order, picked, x.n + n)
    <3> SUFFICES ASSUME order.strict, todo = {} PROVE Exact(order, picked, x.n + n)
      OBVIOUS
    <3>1. order.rules \ todo = order.rules
      OBVIOUS
    <3>2. x.n + n = M!Counts(order.rules) /\ order.rules # {}
      BY <2>2, <3>1
    <3> QED
      BY <3>2 DEF Exact
  <2> DEFINE m == x.n + n
  <2>4. /\ M!Continue(p, order, picked, m, todo) /\ m = Cardinality(picked)
        /\ order.strict /\ todo # {} =>
             order.rules # {} /\ todo \subseteq order.rules /\ m = M!Counts(order.rules \ todo)
        /\ order.strict /\ todo = {} => Exact(order, picked, m)
    BY <1>7, <2>1, <2>2, <2>3
  <2> HIDE DEF x, order, n, picked, todo, m
  <2> QED
    BY <1>1, <1>2, <1>7, <1>8, <2>4, Continues
<1>10. CASE n # r.count /\ order.strict
  BY <1>1, <1>4, <1>10, Ends
<1>11. CASE n # r.count /\ ~order.strict
  <2> DEFINE m == x.n + n
             lacks == M!Lacks(r.count, n)
  <2>1. M!LookForMore(p, order, picked, m, todo, r.other, lacks)
    BY <1>4, <1>11
  <2>2. lacks \in Nat /\ m = Cardinality(picked)
    BY <1>5, <1>6, <1>7 DEF M!Lacks
  <2> HIDE DEF x, order, n, picked, todo, m, lacks
  <2> QED
    BY <1>1, <1>2, <1>5, <1>7, <1>8, <1>11, <2>1, <2>2, LooksForMore
<1> QED
  BY <1>9, <1>10, <1>11

LEMMA DrawsMore ==
  ASSUME MakingInv, NEW p \in Request, M!DrawMore(p)
  PROVE  Asking(p)
<1> DEFINE x == proc[p]
           order == x.order
           todo == x.todo
<1>1. M!Asks /\ x.pc = "more" /\ x \in M!Local /\ DrawOk(x)
  BY DEF M!DrawMore, MakingInv, MakingTyped
<1>2. /\ order \in M!Order /\ x.picked \in SUBSET M!Drawn /\ OneEach(x.picked)
      /\ todo \in SUBSET Rule /\ x.n = Cardinality(x.picked) /\ x.lacks \in Nat
      /\ ~order.strict
  BY <1>1, MakingLocals DEF DrawOk
<1>3. PICK drawn \in M!AnyOf(M!Found(x.from, M!Ids(x.picked)), x.lacks) :
        M!Continue(p, order, x.picked \cup drawn, x.n + M!Cardinality(drawn), todo)
  BY DEF M!DrawMore
<1> DEFINE picked == x.picked \cup drawn
           n == x.n + M!Cardinality(drawn)
<1>4. drawn \in SUBSET M!Found(x.from, M!Ids(x.picked))
  <2>1. IsFiniteSet(M!Found(x.from, M!Ids(x.picked)))
    BY FoundOnce, DrawnCount
  <2> QED
    BY <1>2, <2>1, AnyOfCounts
<1>5. picked \in SUBSET M!Drawn /\ OneEach(picked) /\ n = Cardinality(picked)
  BY <1>2, <1>4, DrawnTogether, MakingCounts
<1>6. M!Continue(p, order, picked, n, todo)
  BY <1>3
<1> HIDE DEF x, order, picked, n, todo
<1> QED
  BY <1>1, <1>2, <1>5, <1>6, Continues

LEMMA DrawsProblems ==
  ASSUME MakingInv, NEW p \in Request, M!DrawProblems(p)
  PROVE  Asking(p)
<1> DEFINE x == proc[p]
           order == x.order
           there == {b \in Problem : problems[b] = "published"}
<1>1. M!Asks /\ x.pc = "problems" /\ x \in M!Local /\ DrawOk(x)
  BY DEF M!DrawProblems, MakingInv, MakingTyped
<1>2. /\ order \in M!Order /\ x.picked \in SUBSET M!Drawn /\ OneEach(x.picked)
      /\ x.n = Cardinality(x.picked) /\ x.n \in Nat
      /\ order.strict => Exact(order, x.picked, x.n)
  BY <1>1, MakingLocals DEF DrawOk
<1>3. order.problems \in Nat
  BY <1>2, OrderFacts
<1>4. IsFiniteSet(there)
  <2>1. IsFiniteSet(Problem)
    BY MakingAssumption, MakingCounts DEF M!ConstantsAssumption
  <2>2. there \in SUBSET Problem
    OBVIOUS
  <2> QED
    BY <2>1, <2>2, FS_Subset
<1>5. CASE order.strict /\ M!Cardinality(there) < order.problems
  BY <1>1, <1>5, Ends DEF M!DrawProblems
<1>6. CASE ~(order.strict /\ M!Cardinality(there) < order.problems)
  <2>1. PICK chosen \in M!AnyOf(there, order.problems) :
          M!Goto(p, [pc |-> "create", order |-> order, picked |-> x.picked, n |-> x.n,
                    chosen |-> chosen])
    BY <1>6 DEF M!DrawProblems
  <2>2. chosen \in SUBSET Problem
    BY <1>3, <1>4, AnyOfCounts
  <2>3. order.strict => Cardinality(chosen) = order.problems
    <3>1. M!Cardinality(chosen) = M!Lesser(order.problems, M!Cardinality(there))
      BY DEF M!AnyOf, M!kSubset
    <3>2. M!Cardinality(there) \in Nat
      BY <1>4, MakingCounts, FS_CardinalityType
    <3>3. order.strict => order.problems <= M!Cardinality(there)
      BY <1>3, <1>6, <3>2
    <3>4. order.strict => M!Lesser(order.problems, M!Cardinality(there)) = order.problems
      BY <1>3, <3>2, <3>3 DEF M!Lesser
    <3> QED
      BY <3>1, <3>4, MakingCounts
  <2> DEFINE next == [pc |-> "create", order |-> order, picked |-> x.picked, n |-> x.n,
                      chosen |-> chosen]
  <2> HIDE DEF x, order, there
  <2>4. next \in M!Local
    BY <1>2, <2>2, MakingPlaces
  <2>5. DrawOk(next)
    BY <1>2, <2>3 DEF DrawOk
  <2> HIDE DEF next
  <2> QED
    BY <1>1, <2>1, <2>4, <2>5 DEF Asking, next
<1> QED
  BY <1>5, <1>6

LEMMA MadeByHand ==
  ASSUME MakingInv, NEW p \in Request, NEW picked \in SUBSET M!Drawn, NEW chosen \in SUBSET Problem,
         M!CreateByHand(p, picked, chosen)
  PROVE  Asking(p)
<1> DEFINE n == M!Cardinality(picked)
           next == [pc |-> "create", order |-> None, picked |-> picked, n |-> n, chosen |-> chosen]
<1>1. M!Asks /\ M!Goto(p, next) /\ picked \subseteq M!Found(Class, {})
  BY DEF M!CreateByHand, M!Start
<1>2. OneEach(picked) /\ n = Cardinality(picked) /\ n \in Nat
  BY <1>1, FoundOnce, DrawnCount, MakingCounts DEF OneEach
<1> HIDE DEF n
<1>3. next \in M!Local
  BY <1>2, MakingPlaces
<1>4. DrawOk(next)
  BY <1>2 DEF DrawOk
<1> HIDE DEF next
<1> QED
  BY <1>1, <1>3, <1>4 DEF Asking

\* Reads before an update or a removal.
LEMMA MakingReads ==
  ASSUME MakingInv, NEW p \in Request, NEW e \in Paper, M!UpdateRead(p, e) \/ M!RemoveRead(p, e)
  PROVE  Asking(p)
<1>1. exams[e] # None
  BY DEF M!UpdateRead, M!RemoveRead
<1>2. exams[e] \in M!Row
  BY <1>1 DEF MakingInv, MakingTyped
<1>3. /\ exams[e].type \in M!Type /\ exams[e].threshold \in M!Score
      /\ exams[e].publication \in M!Publication
  BY <1>2 DEF M!Row
<1>4. CASE M!UpdateRead(p, e)
  <2> DEFINE next == [pc |-> "update", exam |-> e, type |-> exams[e].type,
                      threshold |-> exams[e].threshold, publication |-> exams[e].publication]
  <2>1. M!Asks /\ M!Goto(p, next)
    BY <1>4 DEF M!UpdateRead, M!Start
  <2>2. next \in M!Local
    BY <1>3 DEF M!Local
  <2>3. DrawOk(next)
    BY DEF DrawOk
  <2> HIDE DEF next
  <2> QED
    BY <2>1, <2>2, <2>3 DEF Asking
<1>5. CASE M!RemoveRead(p, e)
  <2> DEFINE next == [pc |-> "remove", exam |-> e]
  <2>1. M!Asks /\ M!Goto(p, next)
    BY <1>5 DEF M!RemoveRead, M!Start
  <2>2. next \in M!Local
    BY DEF M!Local
  <2>3. DrawOk(next)
    BY DEF DrawOk
  <2> HIDE DEF next
  <2> QED
    BY <2>1, <2>2, <2>3 DEF Asking
<1> QED
  BY <1>4, <1>5

-----------------------------------------------------------------------------
(* Rows                                                                     *)

LEMMA RowFacts ==
  ASSUME NEW r \in M!Row
  PROVE  /\ r.questionCount \in Nat /\ r.problemCount \in Nat
         /\ r.items \in SUBSET M!Drawn /\ r.problems \in SUBSET Problem
         /\ r.type \in M!Type /\ r.threshold \in M!Score /\ r.publication \in M!Publication
         /\ r.order \in M!Order \cup {None}
  BY DEF M!Row

\* An exam of which only the publication is another.
LEMMA RowPublished ==
  ASSUME NEW r \in M!Row, NEW x \in M!Publication
  PROVE  LET s == [r EXCEPT !.publication = x] IN
         s \in M!Row /\ s.publication = x /\ (RowOk(r) => RowOk(s))
<1> DEFINE s == [r EXCEPT !.publication = x]
<1>1. s \in M!Row
  BY DEF M!Row
<1>2. /\ s.publication = x /\ s.questionCount = r.questionCount /\ s.problemCount = r.problemCount
      /\ s.items = r.items /\ s.problems = r.problems /\ s.type = r.type
      /\ s.threshold = r.threshold /\ s.order = r.order
  BY DEF M!Row
<1> HIDE DEF s
<1>3. RowOk(r) => RowOk(s)
  BY <1>2 DEF RowOk
<1> QED
  BY <1>1, <1>2, <1>3 DEF s

LEMMA NoneIsNoTime ==
  None \notin Nat /\ AsIs \notin Nat /\ None # AsIs /\ MaxTime \in Nat
  BY MakingAssumption DEF M!ConstantsAssumption

\* What buildPublicationState makes is true as it is made.
LEMMA PublishIsTrue ==
  ASSUME now \in M!Time, NEW visibility \in {"PRIVATE", "PUBLIC"}, NEW at \in M!Time \cup {None},
         NEW asNow \in BOOLEAN
  PROVE  /\ M!Publish(visibility, at, asNow) \in M!Publication
         /\ TrueAt(M!Publish(visibility, at, asNow), now)
<1>1. now \in Nat /\ (at # None => at \in Nat) /\ None # now
  BY NoneIsNoTime DEF M!Time
<1>2. CASE visibility = "PRIVATE"
  <2>1. M!Publish(visibility, at, asNow) = M!Private
    BY <1>2 DEF M!Publish
  <2>2. M!Private \in M!Publication /\ M!Private.visibility = "PRIVATE" /\ ~M!Private.isPublished
    BY DEF M!Private, M!Publication
  <2> QED
    BY <2>1, <2>2 DEF TrueAt
<1>3. CASE visibility = "PUBLIC" /\ asNow
  <2> DEFINE x == [visibility |-> "PUBLIC", at |-> None, since |-> now, isPublished |-> TRUE]
  <2>1. M!Publish(visibility, at, asNow) = x
    BY <1>3 DEF M!Publish
  <2>2. x \in M!Publication /\ TrueAt(x, now)
    BY <1>1 DEF M!Publication, TrueAt
  <2> QED
    BY <2>1, <2>2
<1>4. CASE visibility = "PUBLIC" /\ ~asNow /\ at # None /\ at > now
  <2> DEFINE x == [visibility |-> "PUBLIC", at |-> at, since |-> None, isPublished |-> FALSE]
  <2>1. M!Publish(visibility, at, asNow) = x
    BY <1>4 DEF M!Publish
  <2>2. x \in M!Publication /\ TrueAt(x, now)
    BY <1>4 DEF M!Publication, TrueAt
  <2> QED
    BY <2>1, <2>2
<1>5. CASE visibility = "PUBLIC" /\ ~asNow /\ ~(at # None /\ at > now)
  <2> DEFINE x == [visibility |-> "PUBLIC", at |-> at, since |-> now, isPublished |-> TRUE]
  <2>1. M!Publish(visibility, at, asNow) = x
    BY <1>5 DEF M!Publish
  <2>2. at = None \/ at \in 0..now
    BY <1>1, <1>5
  <2>3. x \in M!Publication /\ TrueAt(x, now)
    BY <1>1, <2>2 DEF M!Publication, TrueAt
  <2> QED
    BY <2>1, <2>3
<1> QED
  BY <1>2, <1>3, <1>4, <1>5

\* What a request asks for about publication.
LEMMA SettingFacts ==
  ASSUME NEW set \in Setting
  PROVE  /\ set.visibility \in {AsIs, "PRIVATE", "PUBLIC"} /\ set.asNow \in BOOLEAN
         /\ set.at \in M!Time \cup {None, AsIs}
<1>1. set \in [visibility : {AsIs, "PRIVATE", "PUBLIC"}, at : (0..MaxTime) \cup {None, AsIs},
               asNow : BOOLEAN]
  BY MakingAssumption DEF M!ConstantsAssumption
<1> QED
  BY <1>1 DEF M!Time

\* An update keeps a true publication, or makes one from any that was read.
LEMMA RepublishIsTrue ==
  ASSUME now \in M!Time, NEW set \in Setting, NEW old \in M!Publication,
         NEW current \in M!Publication, TrueAt(current, now)
  PROVE  /\ M!Republish(set, old, current) \in M!Publication
         /\ TrueAt(M!Republish(set, old, current), now)
<1>1. CASE set = [visibility |-> AsIs, at |-> AsIs, asNow |-> FALSE]
  BY <1>1 DEF M!Republish
<1>2. CASE set # [visibility |-> AsIs, at |-> AsIs, asNow |-> FALSE]
  <2> DEFINE visibility == IF set.visibility = AsIs THEN old.visibility ELSE set.visibility
             at == IF set.at = AsIs THEN old.at ELSE set.at
  <2>1. old.visibility \in {"PRIVATE", "PUBLIC"} /\ old.at \in M!Time \cup {None}
    BY DEF M!Publication
  <2>2. /\ visibility \in {"PRIVATE", "PUBLIC"} /\ at \in M!Time \cup {None}
        /\ set.asNow \in BOOLEAN
    BY <2>1, SettingFacts
  <2>3. M!Republish(set, old, current) = M!Publish(visibility, at, set.asNow)
    BY <1>2 DEF M!Republish
  <2> HIDE DEF visibility, at
  <2> QED
    BY <2>2, <2>3, PublishIsTrue
<1> QED
  BY <1>1, <1>2

\* What is true stays true as time passes.
LEMMA StaysTrue ==
  ASSUME NEW x, NEW t \in Nat, NEW u \in Nat, t <= u, TrueAt(x, t)
  PROVE  TrueAt(x, u)
  BY DEF TrueAt

\* Writes that leave exams true.
LEMMA WritesKeep ==
  ASSUME MakingInv, bank' \in [Drawable -> Class \cup {"hidden", "gone"}],
         problems' \in [Problem -> {"published", "hidden", "gone"}], now' \in M!Time,
         exams' \in [Paper -> M!Row \cup {None}],
         \A e \in Paper : exams'[e] # None => RowOk(exams'[e]) /\ TrueAt(exams'[e].publication, now'),
         proc' = proc \/ \E p \in Request : M!End(p)
  PROVE  MakingInv'
<1>1. proc' \in [Request -> M!Local] /\ \A q \in Request : DrawOk(proc'[q])
  <2>1. CASE proc' = proc
    BY <2>1 DEF MakingInv, MakingTyped
  <2>2. ASSUME NEW p \in Request, M!End(p)
        PROVE  proc' \in [Request -> M!Local] /\ \A q \in Request : DrawOk(proc'[q])
    BY <2>2, MakingMoves, MakingPlaces DEF M!End
  <2> QED
    BY <2>1, <2>2
<1>2. MakingTyped'
  BY <1>1 DEF MakingTyped
<1>3. M!Made' = {e \in Paper : exams'[e] # None}
  BY DEF M!Made
<1>4. \A e \in M!Made' : RowOk(exams'[e]) /\ TrueAt(exams'[e].publication, now')
  BY <1>3
<1> QED
  BY <1>1, <1>2, <1>4 DEF MakingInv

\* An exam is made of what was drawn.
LEMMA ExamsAreMade ==
  ASSUME MakingInv, NEW p \in Request, NEW e \in Paper, NEW set \in Setting,
         NEW threshold \in M!Score, NEW type \in M!Type,
         M!CreateWrite(p, e, type, threshold, set)
  PROVE  MakingInv'
<1> DEFINE x == proc[p]
           score == M!Points(x.n, M!Cardinality(x.chosen))
           publication == M!Publish(set.visibility, set.at, set.asNow)
           r == [questionCount |-> x.n, problemCount |-> M!Cardinality(x.chosen),
                 items |-> x.picked, problems |-> x.chosen,
                 type |-> type, threshold |-> threshold, order |-> x.order,
                 publication |-> publication]
<1>1. /\ x.pc = "create" /\ M!End(p) /\ UNCHANGED <<bank, problems, now>>
      /\ type = "PRACTICE" => threshold = None
      /\ set.visibility # AsIs /\ set.at # AsIs
      /\ exams' = exams \/ (~(threshold # None /\ threshold > score) /\ exams' = [exams EXCEPT ![e] = r])
  BY DEF M!CreateWrite
<1>2. x \in M!Local /\ DrawOk(x)
  BY DEF MakingInv, MakingTyped
<1>3. /\ x.picked \in SUBSET M!Drawn /\ x.n \in Nat /\ x.order \in M!Order \cup {None}
      /\ x.chosen \in SUBSET Problem
  BY <1>1, <1>2, MakingLocals
<1>4. /\ OneEach(x.picked) /\ x.n = Cardinality(x.picked)
      /\ x.order = None \/ (x.order.strict =>
           Exact(x.order, x.picked, x.n) /\ Cardinality(x.chosen) = x.order.problems)
  BY <1>1, <1>2 DEF DrawOk
<1>5. M!Cardinality(x.chosen) = Cardinality(x.chosen) /\ Cardinality(x.chosen) \in Nat
  <2>1. IsFiniteSet(Problem)
    BY MakingAssumption, MakingCounts DEF M!ConstantsAssumption
  <2> QED
    BY <1>3, <2>1, MakingCounts, FS_Subset, FS_CardinalityType
<1>6. publication \in M!Publication /\ TrueAt(publication, now)
  <2>1. set.visibility \in {"PRIVATE", "PUBLIC"} /\ set.at \in M!Time \cup {None} /\ set.asNow \in BOOLEAN
    BY <1>1, SettingFacts
  <2> QED
    BY <2>1, PublishIsTrue DEF MakingInv, MakingTyped
<1>7. ASSUME ~(threshold # None /\ threshold > score), exams' = [exams EXCEPT ![e] = r]
      PROVE  MakingInv'
  <2> HIDE DEF publication
  <2>1. r \in M!Row
    BY <1>3, <1>5, <1>6 DEF M!Row
  <2>2. threshold # None => type = "EXAM" /\ threshold <= x.n + M!Cardinality(x.chosen)
    <3>1. threshold # None => threshold \in Nat
      BY MakingAssumption DEF M!Score, M!ConstantsAssumption
    <3> QED
      BY <1>1, <1>3, <1>5, <1>7, <3>1 DEF M!Points, M!Type
  <2>3. /\ r.questionCount = x.n /\ r.problemCount = M!Cardinality(x.chosen)
        /\ r.items = x.picked /\ r.problems = x.chosen /\ r.type = type
        /\ r.threshold = threshold /\ r.order = x.order /\ r.publication = publication
    OBVIOUS
  <2> HIDE DEF r, x
  <2>4. RowOk(r)
    BY <1>4, <1>5, <2>2, <2>3 DEF RowOk
  <2>5. /\ exams' \in [Paper -> M!Row \cup {None}]
        /\ \A o \in Paper : exams'[o] # None =>
             RowOk(exams'[o]) /\ TrueAt(exams'[o].publication, now')
    BY <1>1, <1>6, <1>7, <2>1, <2>3, <2>4 DEF MakingInv, MakingTyped, M!Made
  <2> QED
    BY <1>1, <2>5, WritesKeep DEF MakingInv, MakingTyped
<1>8. ASSUME exams' = exams PROVE MakingInv'
  BY <1>1, <1>8, WritesKeep DEF MakingInv, MakingTyped, M!Made
<1> QED
  BY <1>1, <1>7, <1>8

\* An update writes type and threshold together, and a publication.
LEMMA ExamsAreUpdated ==
  ASSUME MakingInv, NEW p \in Request, NEW set \in Setting,
         NEW threshold \in M!Score \cup {AsIs}, NEW type \in M!Type \cup {AsIs},
         M!UpdateWrite(p, type, threshold, set)
  PROVE  MakingInv'
<1> DEFINE e == proc[p].exam
           old == proc[p]
           kind == IF type = AsIs THEN old.type ELSE type
           next == IF kind = "PRACTICE" THEN None
                   ELSE IF threshold = AsIs THEN old.threshold ELSE threshold
           r == exams[e]
           s == M!Updated(r, type, kind, next)
           x == M!Republish(set, old.publication, s.publication)
<1>1. /\ old.pc = "update" /\ M!End(p) /\ UNCHANGED <<bank, problems, now>>
      /\ \/ exams' = exams
         \/ /\ r # None
            /\ ~(next # None /\ next > M!Points(r.questionCount, r.problemCount))
            /\ exams' = [exams EXCEPT ![e] = [s EXCEPT !.publication = x]]
  BY DEF M!UpdateWrite
<1>2. CASE exams' = exams
  BY <1>1, <1>2, WritesKeep DEF MakingInv, MakingTyped, M!Made
<1>3. ASSUME r # None, ~(next # None /\ next > M!Points(r.questionCount, r.problemCount)),
             exams' = [exams EXCEPT ![e] = [s EXCEPT !.publication = x]]
      PROVE  MakingInv'
  <2>1. old \in M!Local
    BY DEF MakingInv, MakingTyped
  <2>2. /\ e \in Paper /\ old.type \in M!Type /\ old.threshold \in M!Score
        /\ old.publication \in M!Publication
    BY <1>1, <2>1, MakingLocals
  <2>3. r \in M!Row /\ RowOk(r) /\ TrueAt(r.publication, now) /\ now \in M!Time
    BY <1>3, <2>2 DEF MakingInv, MakingTyped, M!Made
  <2>4. kind \in M!Type /\ next \in M!Score /\ (kind = "PRACTICE" => next = None)
    <3>1. kind \in M!Type
      BY <2>2
    <3>2. threshold # AsIs => threshold \in M!Score
      OBVIOUS
    <3>3. None \in M!Score
      BY DEF M!Score
    <3> QED
      BY <2>2, <3>1, <3>2, <3>3
  <2> HIDE DEF kind, next
  <2>5. /\ s \in M!Row /\ s.publication = r.publication
        /\ s.type = kind /\ s.threshold = next /\ s.questionCount = r.questionCount
        /\ s.problemCount = r.problemCount /\ s.items = r.items /\ s.problems = r.problems
        /\ s.order = r.order
    <3> HIDE DEF r, old
    <3> QED
      BY <2>3, <2>4 DEF M!Updated, M!Row
  <2> HIDE DEF s
  <2>6. RowOk(s)
    <3>1. next # None => kind = "EXAM" /\ next <= r.questionCount + r.problemCount
      <4>1. next # None => next \in Nat
        BY <2>4, MakingAssumption DEF M!Score, M!ConstantsAssumption
      <4>2. r.questionCount \in Nat /\ r.problemCount \in Nat
        BY <2>3, RowFacts
      <4> HIDE DEF r
      <4> QED
        BY <1>3, <2>4, <4>1, <4>2 DEF M!Points, M!Type
    <3> QED
      BY <2>3, <2>5, <3>1 DEF RowOk
  <2>7. x \in M!Publication /\ TrueAt(x, now)
    <3>1. s.publication \in M!Publication /\ TrueAt(s.publication, now)
      BY <2>3, <2>5, RowFacts
    <3> QED
      BY <2>2, <2>3, <3>1, RepublishIsTrue
  <2> HIDE DEF x
  <2> DEFINE row == [s EXCEPT !.publication = x]
  <2>8. row \in M!Row /\ RowOk(row) /\ row.publication = x
    BY <2>5, <2>6, <2>7, RowPublished
  <2>9. exams' = [exams EXCEPT ![e] = row]
    BY <1>3
  <2> HIDE DEF row, e, r, old
  <2>10. /\ exams' \in [Paper -> M!Row \cup {None}]
         /\ \A o \in Paper : exams'[o] # None =>
              RowOk(exams'[o]) /\ TrueAt(exams'[o].publication, now')
    BY <1>1, <2>2, <2>7, <2>8, <2>9 DEF MakingInv, MakingTyped, M!Made
  <2> QED
    BY <1>1, <2>10, WritesKeep DEF MakingInv, MakingTyped
<1> QED
  BY <1>1, <1>2, <1>3

\* What is due is published, and nothing else of an exam changes.
LEMMA ExamsArePublished ==
  ASSUME MakingInv, M!SyncPublication
  PROVE  MakingInv'
<1> DEFINE Synced(r) == [r EXCEPT !.publication.isPublished = TRUE, !.publication.since = now]
<1>1. /\ exams' = [e \in Paper |->
             IF exams[e] = None THEN None
             ELSE IF M!Due(exams[e].publication) THEN Synced(exams[e]) ELSE exams[e]]
      /\ UNCHANGED <<bank, problems, proc, now>>
  BY DEF M!SyncPublication
<1>2. now \in M!Time /\ now \in Nat /\ now # None
  BY NoneIsNoTime DEF MakingInv, MakingTyped, M!Time
<1>3. ASSUME NEW r \in M!Row, RowOk(r), M!Due(r.publication)
      PROVE  Synced(r) \in M!Row /\ RowOk(Synced(r)) /\ TrueAt(Synced(r).publication, now)
  <2> DEFINE x == [[r.publication EXCEPT !.isPublished = TRUE] EXCEPT !.since = now]
  <2>1. r.publication \in M!Publication
    BY <1>3, RowFacts
  <2>2. /\ x \in M!Publication /\ x.isPublished /\ x.since = now
        /\ x.visibility = r.publication.visibility /\ x.at = r.publication.at
    BY <1>2, <2>1 DEF M!Publication
  <2>3. Synced(r) = [r EXCEPT !.publication = x]
    BY <1>3 DEF M!Row
  <2>4. TrueAt(x, now)
    BY <1>2, <1>3, <2>2 DEF TrueAt, M!Due
  <2> HIDE DEF x, Synced
  <2> QED
    BY <1>3, <2>2, <2>3, <2>4, RowPublished
<1> HIDE DEF Synced
<1>4. \A e \in Paper : exams[e] # None =>
        exams[e] \in M!Row /\ RowOk(exams[e]) /\ TrueAt(exams[e].publication, now)
  BY DEF MakingInv, MakingTyped, M!Made
<1>5. \A e \in Paper :
        \/ exams'[e] = None
        \/ exams'[e] \in M!Row /\ RowOk(exams'[e]) /\ TrueAt(exams'[e].publication, now)
  <2> TAKE e \in Paper
  <2>1. CASE exams[e] = None
    BY <1>1, <2>1
  <2>2. CASE exams[e] # None /\ M!Due(exams[e].publication)
    <3>1. exams'[e] = Synced(exams[e])
      BY <1>1, <2>2
    <3> QED
      BY <1>3, <1>4, <2>2, <3>1
  <2>3. CASE exams[e] # None /\ ~M!Due(exams[e].publication)
    <3>1. exams'[e] = exams[e]
      BY <1>1, <2>3
    <3> QED
      BY <1>4, <2>3, <3>1
  <2> QED
    BY <2>1, <2>2, <2>3
<1>6. exams' \in [Paper -> M!Row \cup {None}]
  BY <1>1, <1>5
<1> QED
  BY <1>1, <1>5, <1>6, WritesKeep DEF MakingInv, MakingTyped

LEMMA ExamsAreRemoved ==
  ASSUME MakingInv, NEW p \in Request, M!RemoveWrite(p)
  PROVE  MakingInv'
<1>1. /\ exams' = [exams EXCEPT ![proc[p].exam] = None] /\ M!End(p)
      /\ UNCHANGED <<bank, problems, now>>
  BY DEF M!RemoveWrite
<1>2. /\ exams' \in [Paper -> M!Row \cup {None}]
      /\ \A o \in Paper : exams'[o] # None =>
           RowOk(exams'[o]) /\ TrueAt(exams'[o].publication, now')
  BY <1>1 DEF MakingInv, MakingTyped, M!Made
<1> QED
  BY <1>1, <1>2, WritesKeep DEF MakingInv, MakingTyped

\* The bank changes, time passes, nothing happens.
LEMMA BankIsElsewhere ==
  ASSUME MakingInv,
         \/ \E q \in Drawable, to \in Class \cup {"hidden", "gone"} : M!ChangeQuestion(q, to)
         \/ \E b \in Problem, to \in {"published", "hidden", "gone"} : M!ChangeProblem(b, to)
         \/ M!Tick \/ UNCHANGED M!vars
  PROVE  MakingInv'
<1>1. UNCHANGED <<exams, proc>>
  BY DEF M!ChangeQuestion, M!ChangeProblem, M!Tick, M!vars
<1>2. /\ bank' \in [Drawable -> Class \cup {"hidden", "gone"}]
      /\ problems' \in [Problem -> {"published", "hidden", "gone"}]
  BY DEF M!ChangeQuestion, M!ChangeProblem, M!Tick, M!vars, MakingInv, MakingTyped
<1>3. now \in M!Time /\ now' \in M!Time /\ now \in Nat /\ now' \in Nat /\ now <= now'
  <2>1. now \in M!Time /\ (now' = now \/ (now < MaxTime /\ now' = now + 1))
    BY DEF M!ChangeQuestion, M!ChangeProblem, M!Tick, M!vars, MakingInv, MakingTyped
  <2> QED
    BY <2>1, NoneIsNoTime DEF M!Time
<1>4. \A e \in Paper : exams'[e] # None => RowOk(exams'[e]) /\ TrueAt(exams'[e].publication, now')
  <2> TAKE e \in Paper
  <2> SUFFICES ASSUME exams[e] # None PROVE RowOk(exams[e]) /\ TrueAt(exams[e].publication, now')
    BY <1>1
  <2>1. RowOk(exams[e]) /\ TrueAt(exams[e].publication, now)
    BY DEF MakingInv, M!Made
  <2> QED
    BY <1>3, <2>1, StaysTrue
<1>5. exams' \in [Paper -> M!Row \cup {None}]
  BY <1>1 DEF MakingInv, MakingTyped
<1> QED
  BY <1>1, <1>2, <1>3, <1>4, <1>5, WritesKeep

LEMMA MakingStart == ASSUME M!Init PROVE MakingInv
<1>1. MakingTyped
  <2>1. 0 \in M!Time
    BY NoneIsNoTime DEF M!Time
  <2> QED
    BY <2>1, MakingPlaces DEF M!Init, MakingTyped
<1>2. \A p \in Request : DrawOk(proc[p])
  BY MakingPlaces DEF M!Init
<1>3. M!Made = {}
  BY DEF M!Init, M!Made
<1> QED
  BY <1>1, <1>2, <1>3 DEF MakingInv

LEMMA MakingStep == ASSUME MakingInv, [M!Next]_M!vars PROVE MakingInv'
<1>1. ASSUME NEW p \in Request, M!Step(p) PROVE MakingInv'
  <2>1. ASSUME NEW order \in M!Order, M!CreateBegin(p, order) PROVE MakingInv'
    BY <2>1, BeginsDraw, AskingKeeps
  <2>2. CASE M!CountLevels(p) \/ M!RankLevels(p) \/ M!DrawByRule(p) \/ M!DrawMore(p)
             \/ M!DrawProblems(p)
    BY <2>2, CountsLevels, RanksLevels, DrawsByRule, DrawsMore, DrawsProblems, AskingKeeps
  <2>3. ASSUME NEW picked \in SUBSET M!Drawn, NEW chosen \in SUBSET Problem,
               M!CreateByHand(p, picked, chosen)
        PROVE  MakingInv'
    BY <2>3, MadeByHand, AskingKeeps
  <2>4. ASSUME NEW e \in Paper, M!UpdateRead(p, e) \/ M!RemoveRead(p, e) PROVE MakingInv'
    BY <2>4, MakingReads, AskingKeeps
  <2>5. CASE M!Fail(p)
    BY <2>5, Ends, AskingKeeps DEF M!Fail
  <2>6. ASSUME NEW e \in Paper, NEW set \in Setting, NEW threshold \in M!Score,
               NEW type \in M!Type, M!CreateWrite(p, e, type, threshold, set)
        PROVE  MakingInv'
    BY <2>6, ExamsAreMade
  <2>7. ASSUME NEW set \in Setting, NEW threshold \in M!Score \cup {AsIs},
               NEW type \in M!Type \cup {AsIs}, M!UpdateWrite(p, type, threshold, set)
        PROVE  MakingInv'
    BY <2>7, ExamsAreUpdated
  <2>8. CASE M!RemoveWrite(p)
    BY <2>8, ExamsAreRemoved
  <2> QED
    BY <1>1, <2>1, <2>2, <2>3, <2>4, <2>5, <2>6, <2>7, <2>8 DEF M!Step
<1>2. CASE M!SyncPublication
  BY <1>2, ExamsArePublished
<1>3. CASE \/ \E q \in Drawable, to \in Class \cup {"hidden", "gone"} : M!ChangeQuestion(q, to)
           \/ \E b \in Problem, to \in {"published", "hidden", "gone"} : M!ChangeProblem(b, to)
           \/ M!Tick \/ UNCHANGED M!vars
  BY <1>3, BankIsElsewhere
<1> QED
  BY <1>1, <1>2, <1>3 DEF M!Next

-----------------------------------------------------------------------------
(* What is promised                                                         *)

LEMMA MakingTypes == M!Spec => []MakingInv
  BY MakingStart, MakingStep, PTL DEF M!Spec

LEMMA MadeFacts ==
  ASSUME MakingInv, NEW e \in M!Made
  PROVE  exams[e] \in M!Row /\ RowOk(exams[e]) /\ TrueAt(exams[e].publication, now)
  BY DEF MakingInv, MakingTyped, M!Made

(***************************************************************************)
(* createRandom: however many queries a draw takes, whatever is published, *)
(* moved or deleted between them and however many requests draw, an exam   *)
(* counts the distinct questions and problems it has, and a STRICT one has *)
(* what was asked for, of each difficulty or by its rules.                 *)
(***************************************************************************)
THEOREM DrawsStayExact == M!Spec => []DrawsAreExact
<1>1. ASSUME MakingInv PROVE DrawsAreExact
  <2> SUFFICES ASSUME NEW e \in M!Made
               PROVE  /\ exams[e].questionCount = M!Cardinality(M!Ids(exams[e].items))
                      /\ exams[e].problemCount = M!Cardinality(exams[e].problems)
                      /\ (exams[e].order # None /\ exams[e].order.strict) =>
                           /\ exams[e].problemCount = exams[e].order.problems
                           /\ exams[e].order.rules = {} =>
                                \A c \in Class : M!Cardinality(M!OfClass(exams[e].items, c))
                                                   = exams[e].order.want[c]
                           /\ exams[e].order.rules # {} =>
                                exams[e].questionCount = M!Asked(exams[e].order)
    BY Zenon DEF DrawsAreExact, M!DrawsAreExact
  <2> DEFINE r == exams[e]
  <2>1. r \in M!Row /\ RowOk(r)
    BY <1>1, MadeFacts
  <2> HIDE DEF r
  <2>2. r.items \in SUBSET M!Drawn /\ r.order \in M!Order \cup {None}
    BY <2>1, RowFacts
  <2>3. r.questionCount = M!Cardinality(M!Ids(r.items))
    BY <2>1, <2>2, IdsCount, MakingCounts DEF RowOk
  <2>4. r.problemCount = M!Cardinality(r.problems)
    BY <2>1, MakingCounts DEF RowOk
  <2>5. ASSUME r.order # None, r.order.strict
        PROVE  /\ r.problemCount = r.order.problems
               /\ r.order.rules = {} =>
                    \A c \in Class : M!Cardinality(M!OfClass(r.items, c)) = r.order.want[c]
               /\ r.order.rules # {} => r.questionCount = M!Asked(r.order)
    <3>1. Exact(r.order, r.items, r.questionCount) /\ r.problemCount = r.order.problems
      BY <2>1, <2>5 DEF RowOk
    <3> QED
      BY <3>1, MakingCounts DEF Exact, M!Asked
  <2> QED
    BY <2>3, <2>4, <2>5 DEF r
<1> QED
  BY <1>1, MakingTypes, PTL

(***************************************************************************)
(* update: whatever updates race, each of which checks the row it read and *)
(* writes the type and the threshold, the threshold of an exam is within   *)
(* the points of its questions and problems, and an exam of practice has   *)
(* none.                                                                   *)
(***************************************************************************)
THEOREM ThresholdsStayWithin == M!Spec => []ThresholdIsWithin
<1>1. ASSUME MakingInv PROVE ThresholdIsWithin
  <2>1. ASSUME NEW e \in M!Made, exams[e].threshold # None
        PROVE  /\ exams[e].type = "EXAM"
               /\ exams[e].threshold <= M!Points(M!Cardinality(exams[e].items),
                                                 M!Cardinality(exams[e].problems))
    BY <1>1, <2>1, MadeFacts, MakingCounts DEF RowOk, M!Points
  <2> QED
    BY <2>1 DEF ThresholdIsWithin, M!ThresholdIsWithin
<1> QED
  BY <1>1, MakingTypes, PTL

(***************************************************************************)
(* buildPublicationState, syncScheduledExamPublication: isPublished is set *)
(* only of a public exam whose date has come, and a public exam it is not  *)
(* set of has a date, whatever updates overwrite each other.               *)
(***************************************************************************)
THEOREM FlagStaysTrue == M!Spec => []FlagIsTrue
<1>1. ASSUME MakingInv PROVE FlagIsTrue
  <2>1. \A e \in M!Made : TrueAt(exams[e].publication, now)
    BY <1>1 DEF MakingInv
  <2> QED
    BY <2>1, Zenon DEF TrueAt, FlagIsTrue, M!FlagIsTrue
<1> QED
  BY <1>1, MakingTypes, PTL

(***************************************************************************)
(* The tables and the requests under way in the three modules about        *)
(* questions and exams stay of their types.                                *)
(***************************************************************************)
THEOREM BankTypesHold == Q!Spec /\ M!Spec /\ S!Spec => []TypeOK
<1>1. BankInv => Q!TypeOK
  BY DEF BankInv
<1>2. ASSUME MakingInv PROVE M!TypeOK
  <2>1. \A e \in Paper : exams[e] = None \/ exams[e] \in M!Row
    BY <1>2 DEF MakingInv, MakingTyped
  <2>2. \A p \in Request : proc[p] \in M!Local
    BY <1>2 DEF MakingInv, MakingTyped
  <2> QED
    BY <1>2, <2>1, <2>2 DEF MakingInv, MakingTyped, M!TypeOK
<1>3. ASSUME StartsTyped PROVE S!TypeOK
  <2>1. PICK n \in Nat : Numbered(n)
    BY <1>3 DEF StartsTyped
  <2>2. S!Number = n
    BY <2>1, NumberedIsNumber
  <2>3. S!Number <= MaxSessions /\ rows \in [1..S!Number -> S!Row]
    BY <2>1, <2>2, StartsAssumption DEF Numbered, S!ConstantsAssumption
  <2> QED
    BY <1>3, <2>3 DEF StartsTyped, S!TypeOK
<1>4. BankInv /\ MakingInv /\ StartsTyped => TypeOK
  BY <1>1, <1>2, <1>3 DEF TypeOK
<1> QED
  BY <1>4, BankTypes, MakingTypes, StartsTypes, PTL

(***************************************************************************)
(* The run of MCBank, whose parts take turns within their bounds, is one   *)
(* of the bank, of the making of exams and of their sessions, so what is   *)
(* proved of each holds of all of them.                                    *)
(***************************************************************************)
THEOREM BankComposes == Spec => Q!Spec /\ M!Spec /\ S!Spec
<1>1. Init => Q!Init /\ M!Init /\ S!Init
  BY DEF Init
<1>2. ASSUME [Next]_vars PROVE [Q!Next]_(Q!vars) /\ [M!Next]_(M!vars) /\ [S!Next]_(S!vars)
  <2>1. UNCHANGED ofBank => UNCHANGED Q!vars
    BY DEF ofBank, Q!vars, Q!tables
  <2>2. UNCHANGED ofMaking => UNCHANGED M!vars
    BY DEF ofMaking, M!vars
  <2>3. UNCHANGED ofStarts => UNCHANGED S!vars
    BY DEF ofStarts, S!vars
  <2>4. CASE Next
    <3>1. \/ Q!Next /\ UNCHANGED ofMaking /\ UNCHANGED ofStarts
          \/ M!Next /\ UNCHANGED ofBank /\ UNCHANGED ofStarts
          \/ S!Next /\ UNCHANGED ofBank /\ UNCHANGED ofMaking
      BY <2>4 DEF Next
    <3> QED
      BY <2>1, <2>2, <2>3, <3>1
  <2>5. CASE UNCHANGED vars
    BY <2>1, <2>2, <2>3, <2>5 DEF vars
  <2> QED
    BY <1>2, <2>4, <2>5
<1> QED
  BY <1>1, <1>2, PTL DEF Spec, Q!Spec, M!Spec, S!Spec
=============================================================================
