---------------------------- MODULE PeopleProofs ----------------------------
(***************************************************************************)
(* Proofs about Accounts, LecturerRoles and Kyc, as MCAccounts has them,   *)
(* for every number of requests and every value of the constants.          *)
(***************************************************************************)
EXTENDS MCAccounts, FiniteSetTheorems, TLAPS

-----------------------------------------------------------------------------
(* Facts about numbers and sets *)

\* A set of natural numbers has a least one.
LEMMA NatMin ==
  ASSUME NEW T \in SUBSET Nat, T # {}
  PROVE  \E x \in T : \A y \in T : x <= y
<1>1. \E x \in T : \A y \in T : ~ (<<y, x>> \in OpToRel(<, Nat))
  BY NatLessThanWellFounded, WFMin
<1>2. \A x, y \in Nat : ~ (<<y, x>> \in OpToRel(<, Nat)) => x <= y
  BY DEF OpToRel
<1> QED
  BY <1>1, <1>2

\* Processes can be counted, and there are no more than all of them.
LEMMA Counting ==
  ASSUME NEW P, IsFiniteSet(P), NEW S \in SUBSET P
  PROVE  /\ IsFiniteSet(S) /\ Cardinality(S) \in Nat /\ Cardinality(P) \in Nat
         /\ Cardinality(S) <= Cardinality(P)
         /\ \A T \in SUBSET S : Cardinality(T) \in Nat /\ Cardinality(T) <= Cardinality(S)
         /\ \A x \in S : Cardinality(S \ {x}) = Cardinality(S) - 1
<1>1. IsFiniteSet(S) /\ Cardinality(S) <= Cardinality(P)
  BY FS_Subset
<1>2. \A T \in SUBSET S : IsFiniteSet(T) /\ Cardinality(T) <= Cardinality(S)
  BY <1>1, FS_Subset
<1>3. \A x \in S : Cardinality(S \ {x}) = Cardinality(S) - 1
  BY <1>1, FS_RemoveElement
<1> QED
  BY <1>1, <1>2, <1>3, FS_CardinalityType

\* The instances count as this module does.
LEMMA SameCount ==
  /\ \A S : A!IsFiniteSet(S) <=> IsFiniteSet(S)
  /\ \A S : A!Cardinality(S) = Cardinality(S)
<1>1. \A S : A!IsFiniteSet(S) <=> IsFiniteSet(S)
  BY DEF A!IsFiniteSet, IsFiniteSet
<1>2. \A S : A!Cardinality(S) = Cardinality(S)
  BY DEF A!Cardinality, Cardinality
<1> QED
  BY <1>1, <1>2

-----------------------------------------------------------------------------
(* Accounts: types *)

LEMMA AccountInit == A!Init => A!TypeOK
<1> SUFFICES ASSUME A!Init PROVE A!TypeOK
  OBVIOUS
<1>1. proc \in [Process -> A!Local]
  BY AccountsAssumption DEF A!Init, A!Local, A!Idle, A!ConstantsAssumption
<1>2. auth \in BOOLEAN /\ known \in BOOLEAN /\ verified \in BOOLEAN /\ session \in BOOLEAN
      /\ locked \in BOOLEAN /\ overdue \in BOOLEAN
  BY Zenon DEF A!Init
<1> QED
  BY <1>1, <1>2, AccountsAssumption DEF A!Init, A!TypeOK, A!ConstantsAssumption

\* What a process may become.
LEMMA AccountMoves ==
  ASSUME A!TypeOK, NEW p \in Process
  PROVE  /\ proc[p] \in A!Local
         /\ A!End(p) => proc' \in [Process -> A!Local]
         /\ \A l \in {"register", "credentials", "create", "made", "undo", "login", "autolock",
                      "refresh", "forgot", "mail", "reset", "verify", "resend"} :
            \A i \in 0..MaxIds, c \in Code \cup {None} :
              A!Goto(p, l, i, c) => proc' \in [Process -> A!Local]
<1>1. A!Idle \in A!Local
  BY AccountsAssumption DEF A!Local, A!Idle, A!ConstantsAssumption
<1>2. \A l \in {"register", "credentials", "create", "made", "undo", "login", "autolock",
                "refresh", "forgot", "mail", "reset", "verify", "resend"} :
      \A i \in 0..MaxIds, c \in Code \cup {None} : [pc |-> l, id |-> i, code |-> c] \in A!Local
  BY DEF A!Local
<1> QED
  BY <1>1, <1>2 DEF A!TypeOK, A!End, A!Goto

LEMMA AccountFields ==
  ASSUME NEW x \in A!Local PROVE x.id \in 0..MaxIds /\ x.code \in Code \cup {None}
  BY DEF A!Local

\* An account that is deleted leaves everything well-typed.
LEMMA EraseTypes ==
  ASSUME A!TypeOK, A!Erase, proc' \in [Process -> A!Local]
  PROVE  A!TypeOK'
<1>1. auth' \in BOOLEAN /\ known' \in BOOLEAN /\ verified' \in BOOLEAN /\ session' \in BOOLEAN
      /\ locked' \in BOOLEAN /\ overdue' \in BOOLEAN
  BY Zenon DEF A!Erase, A!TypeOK
<1>2. id' \in 0..MaxIds /\ ids' \in 0..MaxIds /\ used' \in Nat /\ entered' \in Nat
  BY AccountsAssumption DEF A!Erase, A!TypeOK, A!ConstantsAssumption
<1>3. link' \in Code \cup {None} /\ reset' \in Code \cup {None}
      /\ inbox' \subseteq Code /\ expired' \subseteq Code
  BY DEF A!Erase, A!TypeOK
<1> QED
  BY <1>1, <1>2, <1>3 DEF A!TypeOK

LEMMA AccountBegins ==
  ASSUME A!TypeOK, NEW p \in Process, A!Begins(p)
  PROVE  A!TypeOK'
<1> USE AccountMoves, AccountsAssumption DEF A!TypeOK, A!account, A!mails, A!history, A!ConstantsAssumption
<1>1. CASE A!RegisterRead(p) BY <1>1 DEF A!RegisterRead
<1>2. CASE A!CreateRead(p) BY <1>2 DEF A!CreateRead
<1>3. CASE A!LoginRead(p) BY <1>3 DEF A!LoginRead
<1>4. CASE A!LoginOverdue(p) BY <1>4 DEF A!LoginOverdue
<1>5. CASE A!RefreshRead(p) BY <1>5 DEF A!RefreshRead
<1>6. CASE A!ForgotRead(p) BY <1>6 DEF A!ForgotRead
<1>7. CASE A!ResendRead(p) BY <1>7 DEF A!ResendRead
<1>8. ASSUME NEW c \in Code, A!ResetRead(p, c) \/ A!VerifyRead(p, c) PROVE A!TypeOK'
  BY <1>8 DEF A!ResetRead, A!VerifyRead
<1> QED
  BY <1>1, <1>2, <1>3, <1>4, <1>5, <1>6, <1>7, <1>8 DEF A!Begins

LEMMA AccountGoes ==
  ASSUME A!TypeOK, NEW p \in Process, A!Goes(p) \/ A!Fail(p)
  PROVE  A!TypeOK'
<1>0. proc[p].id \in 0..MaxIds /\ proc[p].code \in Code \cup {None}
  BY AccountFields DEF A!TypeOK
<1> USE AccountMoves, AccountsAssumption DEF A!TypeOK, A!account, A!mails, A!history, A!ConstantsAssumption
<1>1. CASE A!RegisterUser(p) BY <1>0, <1>1 DEF A!RegisterUser
<1>2. CASE A!CreateWrite(p)
  <2>1. CASE A!Make /\ A!Goto(p, "made", ids + 1, None)
    BY <2>1 DEF A!Make
  <2>2. CASE A!End(p) /\ UNCHANGED <<A!account, A!mails, A!history>>
    BY <2>2
  <2> QED
    BY <1>2, <2>1, <2>2 DEF A!CreateWrite
<1>3. CASE A!LoginWrite(p)
  <2>1. CASE A!Reaches(p)
    <3>1. entered' = entered \/ entered' = entered + 1
      BY <1>3, <2>1 DEF A!LoginWrite
    <3>2. session' = TRUE /\ A!End(p)
      BY <1>3, <2>1 DEF A!LoginWrite
    <3> QED
      BY <1>3, <3>1, <3>2 DEF A!LoginWrite
  <2>2. CASE ~A!Reaches(p)
    BY <1>3, <2>2 DEF A!LoginWrite
  <2> QED
    BY <2>1, <2>2
<1>4. CASE A!LoginLock(p) BY <1>0, <1>4 DEF A!LoginLock
<1>5. CASE A!RefreshWrite(p) BY <1>0, <1>5 DEF A!RefreshWrite
<1>6. CASE A!MailArrives(p) BY <1>0, <1>6 DEF A!MailArrives
<1>7. CASE A!ResetWrite(p)
  <2>1. CASE A!Reaches(p)
    <3>1. reset' = None /\ known' = TRUE /\ session' = FALSE /\ used' = used + 1 /\ A!End(p)
      BY <1>7, <2>1, Zenon DEF A!ResetWrite, A!SpendCode
    <3>2. UNCHANGED <<id, ids, auth, verified, link, locked, overdue, A!mails, entered>>
      BY <1>7, Zenon DEF A!ResetWrite
    <3>3. known' \in BOOLEAN /\ session' \in BOOLEAN
      BY <3>1, Zenon
    <3>4. reset' \in Code \cup {None}
      BY <3>1
    <3>5. used' \in Nat
      BY <3>1
    <3>6. proc' \in [Process -> A!Local]
      BY <3>1
    <3> QED
      BY <3>2, <3>3, <3>4, <3>5, <3>6
  <2>2. CASE ~A!Reaches(p)
    BY <1>7, <2>2 DEF A!ResetWrite
  <2> QED
    BY <2>1, <2>2
<1>8. CASE A!VerifyWrite(p) BY <1>0, <1>8 DEF A!VerifyWrite
<1>9. CASE A!CreateMailed(p) BY <1>0, <1>9 DEF A!CreateMailed
<1>10. CASE A!CreateMailFails(p) BY <1>0, <1>10 DEF A!CreateMailFails
<1>11. CASE A!CreateUndo(p)
  <2>1. CASE A!Erase
    BY <1>11, <2>1, EraseTypes DEF A!CreateUndo
  <2>2. CASE UNCHANGED <<A!account, A!mails, A!history>>
    BY <1>11, <2>2 DEF A!CreateUndo
  <2> QED
    BY <1>11, <2>1, <2>2 DEF A!CreateUndo
<1>12. ASSUME NEW c \in Code, A!RegisterAuth(p, c) PROVE A!TypeOK'
  BY <1>0, <1>12 DEF A!RegisterAuth, A!Draw
<1>13. ASSUME NEW c \in Code, A!ForgotWrite(p, c) PROVE A!TypeOK'
  BY <1>0, <1>13 DEF A!ForgotWrite, A!Draw
<1>14. ASSUME NEW c \in Code, A!ResendWrite(p, c) PROVE A!TypeOK'
  BY <1>0, <1>14 DEF A!ResendWrite, A!Draw
<1>15. CASE A!Fail(p) BY <1>15 DEF A!Fail
<1> QED
  BY <1>1, <1>2, <1>3, <1>4, <1>5, <1>6, <1>7, <1>8, <1>9, <1>10, <1>11, <1>12, <1>13, <1>14,
     <1>15 DEF A!Goes

LEMMA AccountElse ==
  ASSUME A!TypeOK, A!StaffStep \/ A!Logout \/ A!NewYear \/ \E c \in Code : A!Expire(c)
  PROVE  A!TypeOK'
<1> USE AccountsAssumption DEF A!TypeOK, A!account, A!mails, A!history, A!ConstantsAssumption
<1>1. ASSUME NEW lock \in {TRUE, FALSE, None}, NEW password \in BOOLEAN, A!Update(lock, password)
      PROVE  A!TypeOK'
  BY <1>1 DEF A!Update
<1>2. CASE A!ImportStudent BY <1>2 DEF A!ImportStudent, A!Make
<1>3. CASE A!Remove BY <1>3, EraseTypes DEF A!Remove
<1>4. CASE A!AutoLock BY <1>4 DEF A!AutoLock
<1>5. CASE A!Logout BY <1>5 DEF A!Logout
<1>6. CASE A!NewYear BY <1>6 DEF A!NewYear
<1>7. ASSUME NEW c \in Code, A!Expire(c) PROVE A!TypeOK'
  BY <1>7 DEF A!Expire
<1> QED
  BY <1>1, <1>2, <1>3, <1>4, <1>5, <1>6, <1>7 DEF A!StaffStep

LEMMA AccountTypes == A!Spec => []A!TypeOK
<1>1. A!TypeOK /\ [A!Next]_A!vars => A!TypeOK'
  <2> SUFFICES ASSUME A!TypeOK, [A!Next]_A!vars PROVE A!TypeOK'
    OBVIOUS
  <2>1. CASE A!Next
    BY <2>1, AccountBegins, AccountGoes, AccountElse DEF A!Next
  <2>2. CASE UNCHANGED A!vars
    BY <2>2 DEF A!vars, A!TypeOK, A!account, A!mails, A!history
  <2> QED
    BY <2>1, <2>2
<1> QED
  BY <1>1, AccountInit, PTL DEF A!Spec

-----------------------------------------------------------------------------
(* Accounts: logins past a lock, passwords by one code.  What a process has *)
(* begun and may still write is counted together with what is written.      *)

InFlight(label) == {p \in Process : proc[p].pc = label}

\* Who ends is in flight no more, and who goes elsewhere is not there.
LEMMA FlightMoves ==
  ASSUME A!TypeOK, NEW p \in Process, NEW label
  PROVE  /\ A!End(p) /\ label # "idle" => InFlight(label)' = InFlight(label) \ {p}
         /\ \A l, i, c : A!Goto(p, l, i, c) /\ l # label =>
              InFlight(label)' = InFlight(label) \ {p}
  BY DEF A!TypeOK, A!End, A!Goto, A!Idle, InFlight

\* Logins that have begun and may still get past the lock are counted with
\* those that have; an account that is open has none.
BarredInv ==
  IF A!Barred THEN entered + Cardinality(InFlight("login")) <= Cardinality(Process)
              ELSE entered = 0

\* No request but a login goes past a lock, and none begins behind one.
BarredKept ==
  \/ entered' = 0
  \/ /\ entered' = entered
     /\ A!Barred => A!Barred' /\ InFlight("login")' \subseteq InFlight("login")
  \/ \E p \in InFlight("login") :
       /\ A!Barred /\ A!Barred'
       /\ entered' = entered + 1 /\ InFlight("login")' = InFlight("login") \ {p}

LEMMA BarredBegins ==
  ASSUME A!TypeOK, NEW p \in Process, A!Begins(p)
  PROVE  entered' = entered /\ (A!Barred => A!Barred' /\ InFlight("login")' \subseteq InFlight("login"))
<1> USE FlightMoves DEF A!account, A!history, A!Barred, A!MayLogin
<1>1. CASE A!RegisterRead(p) BY <1>1 DEF A!RegisterRead
<1>2. CASE A!CreateRead(p) BY <1>2 DEF A!CreateRead
<1>3. CASE A!LoginRead(p) BY <1>3 DEF A!LoginRead
<1>4. CASE A!LoginOverdue(p) BY <1>4 DEF A!LoginOverdue
<1>5. CASE A!RefreshRead(p) BY <1>5 DEF A!RefreshRead
<1>6. CASE A!ForgotRead(p) BY <1>6 DEF A!ForgotRead
<1>7. CASE A!ResendRead(p) BY <1>7 DEF A!ResendRead
<1>8. ASSUME NEW c \in Code, A!ResetRead(p, c) \/ A!VerifyRead(p, c)
      PROVE  entered' = entered /\ (A!Barred => A!Barred' /\ InFlight("login")' \subseteq InFlight("login"))
  BY <1>8 DEF A!ResetRead, A!VerifyRead
<1> QED
  BY <1>1, <1>2, <1>3, <1>4, <1>5, <1>6, <1>7, <1>8 DEF A!Begins

LEMMA BarredGoes ==
  ASSUME A!TypeOK, NEW p \in Process, A!Goes(p) \/ A!Fail(p)
  PROVE  BarredKept
<1> USE FlightMoves DEF A!account, A!history, A!Barred, BarredKept
<1>1. CASE A!RegisterUser(p) BY <1>1 DEF A!RegisterUser
<1>2. CASE A!CreateWrite(p) BY <1>2 DEF A!CreateWrite, A!Make
<1>3. CASE A!LoginWrite(p)
  <2>1. p \in InFlight("login") /\ InFlight("login")' = InFlight("login") \ {p}
    BY <1>3 DEF A!LoginWrite, InFlight
  <2>2. entered' = entered \/ (A!Barred /\ entered' = entered + 1)
    BY <1>3 DEF A!LoginWrite
  <2>3. A!Barred' <=> A!Barred
    BY <1>3 DEF A!LoginWrite
  <2> QED
    BY <2>1, <2>2, <2>3
<1>4. CASE A!LoginLock(p) BY <1>4 DEF A!LoginLock
<1>5. CASE A!RefreshWrite(p) BY <1>5 DEF A!RefreshWrite
<1>6. CASE A!MailArrives(p) BY <1>6 DEF A!MailArrives
<1>7. CASE A!ResetWrite(p) BY <1>7 DEF A!ResetWrite
<1>8. CASE A!VerifyWrite(p) BY <1>8 DEF A!VerifyWrite
<1>9. CASE A!CreateMailed(p) BY <1>9 DEF A!CreateMailed
<1>10. CASE A!CreateMailFails(p) BY <1>10 DEF A!CreateMailFails
<1>11. CASE A!CreateUndo(p) BY <1>11 DEF A!CreateUndo, A!Erase
<1>12. ASSUME NEW c \in Code, A!RegisterAuth(p, c) PROVE BarredKept
  BY <1>12 DEF A!RegisterAuth
<1>13. ASSUME NEW c \in Code, A!ForgotWrite(p, c) PROVE BarredKept
  BY <1>13 DEF A!ForgotWrite
<1>14. ASSUME NEW c \in Code, A!ResendWrite(p, c) PROVE BarredKept
  BY <1>14 DEF A!ResendWrite
<1>15. CASE A!Fail(p) BY <1>15 DEF A!Fail
<1> QED
  BY <1>1, <1>2, <1>3, <1>4, <1>5, <1>6, <1>7, <1>8, <1>9, <1>10, <1>11, <1>12, <1>13, <1>14,
     <1>15 DEF A!Goes

LEMMA BarredElse ==
  ASSUME A!TypeOK, A!StaffStep \/ A!Logout \/ A!NewYear \/ \E c \in Code : A!Expire(c)
  PROVE  BarredKept
<1> USE DEF A!account, A!history, A!Barred, BarredKept, InFlight
<1>1. ASSUME NEW lock \in {TRUE, FALSE, None}, NEW password \in BOOLEAN, A!Update(lock, password)
      PROVE  BarredKept
  BY <1>1 DEF A!Update
<1>2. CASE A!ImportStudent BY <1>2 DEF A!ImportStudent, A!Make
<1>3. CASE A!Remove BY <1>3 DEF A!Remove, A!Erase
<1>4. CASE A!AutoLock BY <1>4 DEF A!AutoLock
<1>5. CASE A!Logout BY <1>5 DEF A!Logout
<1>6. CASE A!NewYear BY <1>6 DEF A!NewYear
<1>7. ASSUME NEW c \in Code, A!Expire(c) PROVE BarredKept
  BY <1>7 DEF A!Expire
<1> QED
  BY <1>1, <1>2, <1>3, <1>4, <1>5, <1>6, <1>7 DEF A!StaffStep

LEMMA BarredStep ==
  ASSUME A!TypeOK, BarredInv, A!TypeOK', [A!Next]_A!vars
  PROVE  BarredInv'
<1>1. BarredKept
  <2>1. CASE A!Next
    BY <2>1, BarredBegins, BarredGoes, BarredElse DEF A!Next, BarredKept
  <2>2. CASE UNCHANGED A!vars
    BY <2>2 DEF A!vars, A!account, A!history, A!Barred, BarredKept, InFlight
  <2> QED
    BY <2>1, <2>2
<1>2. IsFiniteSet(Process) /\ entered \in Nat /\ entered' \in Nat
  BY AccountsAssumption, SameCount DEF A!ConstantsAssumption, A!TypeOK
<1>3. InFlight("login") \subseteq Process /\ InFlight("login")' \subseteq Process
  BY DEF InFlight
<1>4. CASE entered' = 0
  BY <1>2, <1>3, <1>4, Counting DEF BarredInv
<1>5. CASE entered' = entered /\ ~A!Barred
  BY <1>4, <1>5 DEF BarredInv
<1>6. CASE entered' = entered /\ A!Barred /\ A!Barred' /\ InFlight("login")' \subseteq InFlight("login")
  BY <1>2, <1>3, <1>6, Counting DEF BarredInv
<1>7. ASSUME NEW p \in InFlight("login"), A!Barred, A!Barred', entered' = entered + 1,
             InFlight("login")' = InFlight("login") \ {p}
      PROVE  BarredInv'
  BY <1>2, <1>3, <1>7, Counting DEF BarredInv
<1> QED
  BY <1>1, <1>4, <1>5, <1>6, <1>7 DEF BarredKept

(***************************************************************************)
(* However logins, locks by staff, the daily job, deletions and new        *)
(* accounts under the address interleave, an account that is barred has    *)
(* been entered at most once for each request that can be in flight:       *)
(* every login reads the lock before it writes.                            *)
(***************************************************************************)
THEOREM BarredStayOut == A!Spec => []BarredMeansOut
<1>1. A!Init => BarredInv
  BY DEF A!Init, A!Barred, BarredInv
<1>2. A!TypeOK /\ BarredInv => BarredMeansOut
  <2> SUFFICES ASSUME A!TypeOK, BarredInv, A!Barred PROVE entered <= A!Cardinality(Process)
    BY DEF BarredMeansOut, A!BarredMeansOut
  <2>1. IsFiniteSet(Process) /\ InFlight("login") \subseteq Process
    BY AccountsAssumption, SameCount DEF A!ConstantsAssumption, InFlight
  <2>2. entered \in Nat /\ entered + Cardinality(InFlight("login")) <= Cardinality(Process)
    BY DEF A!TypeOK, BarredInv
  <2>3. entered <= Cardinality(Process)
    BY <2>1, <2>2, Counting
  <2> QED
    BY <2>3, SameCount
<1>3. A!TypeOK /\ A!TypeOK' /\ BarredInv /\ [A!Next]_A!vars => BarredInv'
  BY BarredStep
<1> QED
  BY <1>1, <1>2, <1>3, AccountTypes, PTL DEF A!Spec

\* Requests that have compared the code and may still set a password are
\* counted with those that have; a code that is on record has set none.
SpentInv ==
  IF reset = None THEN used + Cardinality(InFlight("reset")) <= Cardinality(Process)
                  ELSE used = 0

\* Only resetPassword clears the code, and only a request that has compared
\* the present one sets a password.
SpentKept ==
  \/ used' = 0
  \/ /\ used' = used /\ reset' = reset
     /\ reset = None => InFlight("reset")' \subseteq InFlight("reset")
  \/ \E p \in InFlight("reset") :
       reset' = None /\ used' = used + 1 /\ InFlight("reset")' = InFlight("reset") \ {p}

LEMMA SpentBegins ==
  ASSUME A!TypeOK, NEW p \in Process, A!Begins(p)
  PROVE  /\ used' = used /\ reset' = reset
         /\ reset = None => InFlight("reset")' \subseteq InFlight("reset")
<1> USE FlightMoves DEF A!account, A!history
<1>1. CASE A!RegisterRead(p) BY <1>1 DEF A!RegisterRead
<1>2. CASE A!CreateRead(p) BY <1>2 DEF A!CreateRead
<1>3. CASE A!LoginRead(p) BY <1>3 DEF A!LoginRead
<1>4. CASE A!LoginOverdue(p) BY <1>4 DEF A!LoginOverdue
<1>5. CASE A!RefreshRead(p) BY <1>5 DEF A!RefreshRead
<1>6. CASE A!ForgotRead(p) BY <1>6 DEF A!ForgotRead
<1>7. CASE A!ResendRead(p) BY <1>7 DEF A!ResendRead
<1>8. ASSUME NEW c \in Code, A!ResetRead(p, c)
      PROVE  used' = used /\ reset' = reset /\ reset # None
  BY <1>8, AccountsAssumption DEF A!ResetRead, A!ConstantsAssumption
<1>9. ASSUME NEW c \in Code, A!VerifyRead(p, c)
      PROVE  used' = used /\ reset' = reset /\ InFlight("reset")' \subseteq InFlight("reset")
  BY <1>9 DEF A!VerifyRead
<1> QED
  BY <1>1, <1>2, <1>3, <1>4, <1>5, <1>6, <1>7, <1>8, <1>9 DEF A!Begins

LEMMA SpentGoes ==
  ASSUME A!TypeOK, NEW p \in Process, A!Goes(p) \/ A!Fail(p)
  PROVE  SpentKept
<1> USE FlightMoves DEF A!account, A!history, SpentKept
<1>1. CASE A!RegisterUser(p) BY <1>1 DEF A!RegisterUser
<1>2. CASE A!CreateWrite(p) BY <1>2 DEF A!CreateWrite, A!Make
<1>3. CASE A!LoginWrite(p) BY <1>3 DEF A!LoginWrite
<1>4. CASE A!LoginLock(p) BY <1>4 DEF A!LoginLock
<1>5. CASE A!RefreshWrite(p) BY <1>5 DEF A!RefreshWrite
<1>6. CASE A!MailArrives(p) BY <1>6 DEF A!MailArrives
<1>7. CASE A!ResetWrite(p)
  <2>1. p \in InFlight("reset") /\ InFlight("reset")' = InFlight("reset") \ {p}
    BY <1>7 DEF A!ResetWrite, InFlight
  <2>2. (used' = used /\ reset' = reset) \/ (reset' = None /\ used' = used + 1)
    BY <1>7 DEF A!ResetWrite, A!SpendCode
  <2> QED
    BY <2>1, <2>2
<1>8. CASE A!VerifyWrite(p) BY <1>8 DEF A!VerifyWrite
<1>9. CASE A!CreateMailed(p) BY <1>9 DEF A!CreateMailed
<1>10. CASE A!CreateMailFails(p) BY <1>10 DEF A!CreateMailFails
<1>11. CASE A!CreateUndo(p) BY <1>11 DEF A!CreateUndo, A!Erase
<1>12. ASSUME NEW c \in Code, A!RegisterAuth(p, c) PROVE SpentKept
  BY <1>12 DEF A!RegisterAuth
<1>13. ASSUME NEW c \in Code, A!ForgotWrite(p, c) PROVE SpentKept
  BY <1>13 DEF A!ForgotWrite
<1>14. ASSUME NEW c \in Code, A!ResendWrite(p, c) PROVE SpentKept
  BY <1>14 DEF A!ResendWrite
<1>15. CASE A!Fail(p) BY <1>15 DEF A!Fail
<1> QED
  BY <1>1, <1>2, <1>3, <1>4, <1>5, <1>6, <1>7, <1>8, <1>9, <1>10, <1>11, <1>12, <1>13, <1>14,
     <1>15 DEF A!Goes

LEMMA SpentElse ==
  ASSUME A!TypeOK, A!StaffStep \/ A!Logout \/ A!NewYear \/ \E c \in Code : A!Expire(c)
  PROVE  SpentKept
<1> USE DEF A!account, A!history, SpentKept, InFlight
<1>1. ASSUME NEW lock \in {TRUE, FALSE, None}, NEW password \in BOOLEAN, A!Update(lock, password)
      PROVE  SpentKept
  BY <1>1 DEF A!Update
<1>2. CASE A!ImportStudent BY <1>2 DEF A!ImportStudent, A!Make
<1>3. CASE A!Remove BY <1>3 DEF A!Remove, A!Erase
<1>4. CASE A!AutoLock BY <1>4 DEF A!AutoLock
<1>5. CASE A!Logout BY <1>5 DEF A!Logout
<1>6. CASE A!NewYear BY <1>6 DEF A!NewYear
<1>7. ASSUME NEW c \in Code, A!Expire(c) PROVE SpentKept
  BY <1>7 DEF A!Expire
<1> QED
  BY <1>1, <1>2, <1>3, <1>4, <1>5, <1>6, <1>7 DEF A!StaffStep

LEMMA SpentStep ==
  ASSUME A!TypeOK, SpentInv, A!TypeOK', [A!Next]_A!vars
  PROVE  SpentInv'
<1>1. SpentKept
  <2>1. CASE A!Next
    BY <2>1, SpentBegins, SpentGoes, SpentElse DEF A!Next, SpentKept
  <2>2. CASE UNCHANGED A!vars
    BY <2>2 DEF A!vars, A!account, A!history, SpentKept, InFlight
  <2> QED
    BY <2>1, <2>2
<1>2. IsFiniteSet(Process) /\ used \in Nat /\ used' \in Nat
  BY AccountsAssumption, SameCount DEF A!ConstantsAssumption, A!TypeOK
<1>3. InFlight("reset") \subseteq Process /\ InFlight("reset")' \subseteq Process
  BY DEF InFlight
<1>4. CASE used' = 0
  BY <1>2, <1>3, <1>4, Counting DEF SpentInv
<1>5. CASE /\ used' = used /\ reset' = reset
           /\ reset = None => InFlight("reset")' \subseteq InFlight("reset")
  BY <1>2, <1>3, <1>5, Counting DEF SpentInv
<1>6. ASSUME NEW p \in InFlight("reset"), reset' = None, used' = used + 1,
             InFlight("reset")' = InFlight("reset") \ {p}
      PROVE  SpentInv'
  BY <1>2, <1>3, <1>6, Counting DEF SpentInv
<1> QED
  BY <1>1, <1>4, <1>5, <1>6 DEF SpentKept

(***************************************************************************)
(* A reset code sets at most one password for each request that can be in  *)
(* flight, although it is compared long before it is cleared, and cleared  *)
(* without being compared again: once it is cleared nobody else can pass   *)
(* the comparison, and those who have passed it are in flight.             *)
(***************************************************************************)
THEOREM CodesAreSpent == A!Spec => []CodeIsSpent
<1>1. A!Init => SpentInv
  <2> SUFFICES ASSUME A!Init PROVE SpentInv
    OBVIOUS
  <2>1. InFlight("reset") = {} /\ reset = None /\ used = 0
    BY DEF A!Init, A!Idle, InFlight
  <2>2. IsFiniteSet(Process)
    BY AccountsAssumption, SameCount DEF A!ConstantsAssumption
  <2> QED
    BY <2>1, <2>2, Counting DEF SpentInv
<1>2. A!TypeOK /\ SpentInv => CodeIsSpent
  <2> SUFFICES ASSUME A!TypeOK, SpentInv PROVE used <= A!Cardinality(Process)
    BY DEF CodeIsSpent, A!CodeIsSpent
  <2>1. IsFiniteSet(Process) /\ InFlight("reset") \subseteq Process /\ used \in Nat
    BY AccountsAssumption, SameCount DEF A!ConstantsAssumption, InFlight, A!TypeOK
  <2>2. used <= Cardinality(Process)
    BY <2>1, Counting DEF SpentInv
  <2> QED
    BY <2>2, SameCount
<1>3. A!TypeOK /\ A!TypeOK' /\ SpentInv /\ [A!Next]_A!vars => SpentInv'
  BY SpentStep
<1> QED
  BY <1>1, <1>2, <1>3, AccountTypes, PTL DEF A!Spec

-----------------------------------------------------------------------------
(* LecturerRoles: types *)

\* What a request holds goes with where it is.
LEMMA RoleLocals ==
  ASSUME NEW x \in L!Local
  PROVE  /\ x.pc = "check" => x \in L!Asking
         /\ x.pc = "write" => x \in L!Allowed
         /\ x.pc = "delete" => x \in [pc : {"delete"}, role : Role]
         /\ x.pc = "idle" => x = L!Idle
  BY DEF L!Local, L!Idle, L!Asking, L!Allowed

\* A request that moves on keeps the types.
LEMMA RoleMoves ==
  ASSUME L!TypeOK, NEW p \in Request, NEW next \in L!Local, L!Goto(p, next)
  PROVE  /\ roleProc' \in [Request -> L!Local] /\ roleProc'[p] = next
         /\ \A q \in Request : q # p => roleProc'[q] = roleProc[q]
  BY DEF L!TypeOK, L!Goto

LEMMA IdleRole == L!Idle \in L!Local /\ L!Idle.pc = "idle"
  BY DEF L!Local, L!Idle

\* The rank of a role is a priority, or None without a role.
LEMMA RoleRanks ==
  ASSUME L!TypeOK, NEW r \in Role \cup {None} PROVE L!RankOf(r) \in L!Rank
  BY RolesAssumption DEF L!RankOf, L!Rank, L!TypeOK, L!ConstantsAssumption

LEMMA RoleInit == L!Init => L!TypeOK
<1> SUFFICES ASSUME L!Init PROVE L!TypeOK
  OBVIOUS
<1>1. roleProc \in [Request -> L!Local]
  BY IdleRole DEF L!Init
<1> QED
  BY <1>1, RolesAssumption DEF L!Init, L!TypeOK, L!ConstantsAssumption

\* What a request asks for, as it holds it.
LEMMA AskTypes ==
  ASSUME L!TypeOK, NEW p \in Request, NEW x \in Lecturer \cup {Admin}, NEW task \in L!Task,
         NEW y \in Lecturer, NEW new \in Role \cup {None}, L!Ask(p, x, task, y, new)
  PROVE  L!TypeOK'
<1>1. L!Write(TRUE, task, y, new) \in L!Local
  BY DEF L!Write, L!Local, L!Allowed
<1>2. CASE x = Admin
  <2>1. roleProc' \in [Request -> L!Local]
    BY <1>1, <1>2, RoleMoves DEF L!Ask
  <2> QED
    BY <2>1 DEF L!Ask, L!TypeOK, L!catalogue
<1>3. CASE x # Admin
  <2>1. L!RankOf(role[y]) \in L!Rank /\ L!RankOf(new) \in L!Rank
    BY RoleRanks DEF L!TypeOK
  <2>2. [pc |-> "check", task |-> task, by |-> x, target |-> y, new |-> new,
         rank |-> L!RankOf(role[y]), newRank |-> L!RankOf(new)] \in L!Local
    BY <1>3, <2>1 DEF L!Local, L!Asking
  <2>3. roleProc' \in [Request -> L!Local]
    BY <1>3, <2>2, RoleMoves DEF L!Ask
  <2> QED
    BY <2>3 DEF L!Ask, L!TypeOK, L!catalogue
<1> QED
  BY <1>2, <1>3

LEMMA CheckTypes ==
  ASSUME L!TypeOK, NEW p \in Request, NEW task \in L!Task, L!Check(p, task)
  PROVE  L!TypeOK'
<1>1. roleProc[p] \in L!Asking
  BY RoleLocals DEF L!Check, L!TypeOK
<1>2. L!Write(FALSE, task, roleProc[p].target, roleProc[p].new) \in L!Local
  BY <1>1 DEF L!Write, L!Local, L!Allowed, L!Asking
<1>3. roleProc' \in [Request -> L!Local]
  BY <1>2, IdleRole, RoleMoves DEF L!Check, L!End
<1> QED
  BY <1>3 DEF L!Check, L!TypeOK, L!catalogue

LEMMA LockTypes ==
  ASSUME L!TypeOK, NEW p \in Request, L!LockWrite(p) \/ L!UnlockWrite(p) \/ L!UpdateWrite(p)
  PROVE  /\ L!TypeOK' /\ UNCHANGED <<L!catalogue, role, byAdmin>>
         /\ roleProc[p].pc = "write" /\ L!End(p)
         /\ lockedLecturers' \subseteq lockedLecturers \cup {roleProc[p].target}
<1>1. roleProc[p] \in L!Allowed
  BY RoleLocals DEF L!LockWrite, L!UnlockWrite, L!UpdateWrite, L!Writes, L!TypeOK
<1>2. roleProc' \in [Request -> L!Local]
  BY IdleRole, RoleMoves DEF L!LockWrite, L!UnlockWrite, L!UpdateWrite, L!Writes, L!End
<1>3. lockedLecturers' \subseteq lockedLecturers \cup {roleProc[p].target}
  BY DEF L!LockWrite, L!UnlockWrite, L!UpdateWrite, L!SetLock
<1>4. UNCHANGED <<L!catalogue, role, byAdmin>> /\ roleProc[p].pc = "write" /\ L!End(p)
  BY DEF L!LockWrite, L!UnlockWrite, L!UpdateWrite, L!SetLock, L!Writes
<1> QED
  BY <1>1, <1>2, <1>3, <1>4 DEF L!TypeOK, L!catalogue, L!Allowed

LEMMA AssignTypes ==
  ASSUME L!TypeOK, NEW p \in Request, L!AssignWrite(p)
  PROVE  L!TypeOK' /\ roleProc[p] \in L!Allowed
<1>1. roleProc[p] \in L!Allowed
  BY RoleLocals DEF L!AssignWrite, L!Writes, L!TypeOK
<1>2. roleProc' \in [Request -> L!Local]
  BY IdleRole, RoleMoves DEF L!AssignWrite, L!Writes, L!End
<1>3. role' \in [Lecturer -> Role \cup {None}] /\ byAdmin' \subseteq Lecturer
  BY <1>1 DEF L!AssignWrite, L!TypeOK, L!Allowed
<1> QED
  BY <1>1, <1>2, <1>3 DEF L!AssignWrite, L!TypeOK, L!catalogue

LEMMA RemoveTypes ==
  ASSUME L!TypeOK, NEW p \in Request,
         L!RemoveWrite(p) \/ L!Fail(p) \/ \E r \in Role : L!RemoveRead(p, r)
  PROVE  L!TypeOK'
<1>1. CASE L!RemoveWrite(p)
  <2>1. roleProc' \in [Request -> L!Local]
    BY <1>1, IdleRole, RoleMoves DEF L!RemoveWrite, L!End
  <2> QED
    BY <1>1, <2>1 DEF L!RemoveWrite, L!TypeOK
<1>2. CASE L!Fail(p)
  <2>1. roleProc' \in [Request -> L!Local]
    BY <1>2, IdleRole, RoleMoves DEF L!Fail, L!End
  <2> QED
    BY <1>2, <2>1 DEF L!Fail, L!TypeOK, L!catalogue
<1>3. ASSUME NEW r \in Role, L!RemoveRead(p, r) PROVE L!TypeOK'
  <2>1. [pc |-> "delete", role |-> r] \in L!Local
    BY DEF L!Local
  <2>2. roleProc' \in [Request -> L!Local]
    BY <1>3, <2>1, RoleMoves DEF L!RemoveRead
  <2> QED
    BY <1>3, <2>2 DEF L!RemoveRead, L!TypeOK, L!catalogue
<1> QED
  BY <1>1, <1>2, <1>3

LEMMA SaveTypes ==
  ASSUME L!TypeOK, NEW r \in Role, NEW n \in 1..MaxPriority, NEW isActive \in BOOLEAN,
         NEW isAdmin \in BOOLEAN,
         L!CreateRole(r, n, isActive, isAdmin) \/ L!UpdateRole(r, n, isActive, isAdmin)
  PROVE  L!TypeOK' /\ L!Save(r, n, isActive, isAdmin)
<1>1. L!Save(r, n, isActive, isAdmin)
  BY DEF L!CreateRole, L!UpdateRole
<1> QED
  BY <1>1 DEF L!Save, L!TypeOK

LEMMA RoleStepTypes == ASSUME L!TypeOK, [L!Next]_L!vars PROVE L!TypeOK'
<1>1. ASSUME NEW p \in Request, L!Step(p) PROVE L!TypeOK'
  <2>1. ASSUME NEW x \in Lecturer \cup {Admin}, NEW y \in Lecturer, NEW new \in Role \cup {None},
               \/ L!LockRead(p, x, y) \/ L!UnlockRead(p, x, y) \/ L!UpdateRead(p, x, y)
               \/ L!AssignRead(p, x, y, new)
        PROVE  L!TypeOK'
    BY <2>1, AskTypes DEF L!LockRead, L!UnlockRead, L!UpdateRead, L!AssignRead, L!Task
  <2>2. CASE L!LockCheck(p) \/ L!UnlockCheck(p) \/ L!UpdateCheck(p) \/ L!AssignCheck(p)
    BY <2>2, CheckTypes DEF L!LockCheck, L!UnlockCheck, L!UpdateCheck, L!AssignCheck, L!Task
  <2>3. CASE L!LockWrite(p) \/ L!UnlockWrite(p) \/ L!UpdateWrite(p) \/ L!AssignWrite(p)
    BY <2>3, LockTypes, AssignTypes
  <2>4. CASE L!RemoveWrite(p) \/ L!Fail(p) \/ \E r \in Role : L!RemoveRead(p, r)
    BY <2>4, RemoveTypes
  <2> QED
    BY <1>1, <2>1, <2>2, <2>3, <2>4 DEF L!Step
<1>2. CASE UNCHANGED L!vars
  BY <1>2 DEF L!vars, L!catalogue, L!TypeOK
<1> QED
  BY <1>1, <1>2, SaveTypes DEF L!Next

LEMMA RoleTypes == L!Spec => []L!TypeOK
  BY RoleInit, RoleStepTypes, PTL DEF L!Spec

-----------------------------------------------------------------------------
(* LecturerRoles: the highest role is ADMIN's                               *)

\* What is known of requests: one that is to be checked has the ranks of those
\* who hold the highest role, or are to get it, as they still are; and one that
\* has passed the check neither touches the first holder nor gives the highest
\* role, unless it is ADMIN's.
ChecksKnowTop ==
  \A p \in Request : roleProc[p].pc = "check" =>
    /\ roleProc[p].target = Chief => roleProc[p].rank = priority[Top]
    /\ roleProc[p].new = Top => roleProc[p].newRank = priority[Top]

WritesSpareTop ==
  \A p \in Request : roleProc[p].pc = "write" =>
    /\ roleProc[p].target # Chief
    /\ ~roleProc[p].byAdmin => roleProc[p].new # Top

RolesAreListed ==
  /\ L!Orderly /\ active \subseteq listed
  /\ \A y \in Lecturer : role[y] \in listed \cup {None}

TopInv == RolesAreListed /\ ChecksKnowTop /\ WritesSpareTop /\ TopIsForAdmin

\* No role has a higher priority than Top.
LEMMA TopIsHighest ==
  ASSUME L!TypeOK, L!Orderly, NEW r \in listed
  PROVE  priority[Top] <= priority[r]
  BY DEF L!Orderly, L!Highest, L!TypeOK

\* The highest active role there is, is no higher than Top; and there is one.
LEMMA TopActiveBelow ==
  ASSUME L!TypeOK, RolesAreListed
  PROVE  L!TopActive # {} /\ \A limit \in L!TopActive : limit \in Nat /\ priority[Top] <= limit
<1> DEFINE some == active \cap listed
<1>1. some # {} /\ some \subseteq Role /\ some \subseteq listed
  BY DEF RolesAreListed, L!Orderly, L!TypeOK
<1>2. {priority[r] : r \in some} \in SUBSET Nat
  BY <1>1 DEF L!TypeOK
<1>3. {priority[r] : r \in some} # {}
  BY <1>1
<1>4. PICK least \in {priority[r] : r \in some} : \A n \in {priority[r] : r \in some} : least <= n
  BY <1>2, <1>3, NatMin
<1>5. PICK r \in some : priority[r] = least
  BY <1>4
<1>6. r \in L!Highest(some)
  BY <1>4, <1>5 DEF L!Highest
<1>7. \A q \in L!Highest(some) : q \in listed /\ priority[q] \in Nat
  BY <1>1 DEF L!Highest, L!TypeOK
<1> QED
  BY <1>6, <1>7, TopIsHighest DEF L!TopActive, RolesAreListed

\* A request that is allowed by ranks is not about Top: no limit is above it.
LEMMA CheckSparesTop ==
  ASSUME L!TypeOK, RolesAreListed, ChecksKnowTop, NEW p \in Request, NEW task, L!Check(p, task),
         roleProc'[p].pc = "write"
  PROVE  /\ roleProc'[p] = L!Write(FALSE, task, roleProc[p].target, roleProc[p].new)
         /\ roleProc[p].target # Chief /\ roleProc[p].new # Top
<1> DEFINE ask == roleProc[p]
           limits == IF role[ask.by] # None THEN {priority[role[ask.by]]} ELSE L!TopActive
<1>1. ask \in L!Asking /\ ask.pc = "check"
  BY RoleLocals DEF L!Check, L!TypeOK
<1>2. /\ \A limit \in limits : L!Below(ask.rank, limit) /\ L!Below(ask.newRank, limit)
      /\ L!Goto(p, L!Write(FALSE, task, ask.target, ask.new))
  <2>1. CASE \A limit \in limits : L!Below(ask.rank, limit) /\ L!Below(ask.newRank, limit)
    BY <2>1 DEF L!Check
  <2>2. CASE ~\A limit \in limits : L!Below(ask.rank, limit) /\ L!Below(ask.newRank, limit)
    <3>1. L!End(p)
      BY <2>2 DEF L!Check
    <3>2. roleProc'[p].pc = "idle"
      BY <3>1, IdleRole, RoleMoves DEF L!End
    <3> QED
      BY <3>2
  <2> QED
    BY <2>1, <2>2
<1>3. \E limit \in limits : limit \in Nat /\ priority[Top] <= limit
  <2>1. CASE role[ask.by] # None
    <3>1. role[ask.by] \in listed /\ role[ask.by] \in Role
      BY <1>1, <2>1 DEF RolesAreListed, L!TypeOK, L!Asking
    <3> QED
      BY <2>1, <3>1, TopIsHighest DEF RolesAreListed, L!TypeOK
  <2>2. CASE role[ask.by] = None
    BY <2>2, TopActiveBelow
  <2> QED
    BY <2>1, <2>2
<1>4. PICK limit \in limits : limit \in Nat /\ priority[Top] <= limit
  BY <1>3
<1>5. priority[Top] \in Nat /\ priority[Top] # None /\ ~(priority[Top] > limit)
  BY <1>4, RolesAssumption DEF L!TypeOK, L!ConstantsAssumption
<1>6. ~L!Below(priority[Top], limit)
  BY <1>5 DEF L!Below
<1>7. ask.target # Chief /\ ask.new # Top
  BY <1>1, <1>2, <1>4, <1>6 DEF ChecksKnowTop
<1> QED
  BY <1>2, <1>7 DEF L!Goto, L!TypeOK

\* A step that leaves the catalogue and the roles alone, and one request moved on.
LEMMA TopMoves ==
  ASSUME L!TypeOK, TopInv, NEW p \in Request, NEW next \in L!Local, L!Goto(p, next),
         UNCHANGED <<L!catalogue, role, lockedLecturers, byAdmin>>,
         next.pc = "check" =>
           /\ next.target = Chief => next.rank = priority[Top]
           /\ next.new = Top => next.newRank = priority[Top],
         next.pc = "write" => next.target # Chief /\ (~next.byAdmin => next.new # Top)
  PROVE  TopInv'
<1>1. RolesAreListed' /\ TopIsForAdmin'
  BY DEF TopInv, RolesAreListed, TopIsForAdmin, L!TopIsForAdmin, L!catalogue, L!Orderly, L!Highest
<1>2. ChecksKnowTop'
  BY RoleMoves DEF TopInv, ChecksKnowTop, L!catalogue
<1>3. WritesSpareTop'
  BY RoleMoves DEF TopInv, WritesSpareTop
<1> QED
  BY <1>1, <1>2, <1>3 DEF TopInv

LEMMA AskKeepsTop ==
  ASSUME L!TypeOK, TopInv, NEW p \in Request, NEW x \in Lecturer \cup {Admin}, NEW task \in L!Task,
         NEW y \in Lecturer, NEW new \in Role \cup {None}, L!Ask(p, x, task, y, new)
  PROVE  TopInv'
<1>0. UNCHANGED <<L!catalogue, role, lockedLecturers, byAdmin>>
  BY DEF L!Ask
<1>1. CASE x = Admin
  <2>1. L!Write(TRUE, task, y, new) \in L!Local /\ y # Chief
        /\ L!Goto(p, L!Write(TRUE, task, y, new))
    BY <1>1 DEF L!Ask, L!Write, L!Local, L!Allowed
  <2> QED
    BY <1>0, <2>1, TopMoves DEF L!Write
<1>2. CASE x # Admin
  <2> DEFINE ask == [pc |-> "check", task |-> task, by |-> x, target |-> y, new |-> new,
                     rank |-> L!RankOf(role[y]), newRank |-> L!RankOf(new)]
  <2>1. L!Goto(p, ask)
    BY <1>2 DEF L!Ask
  <2>2. L!RankOf(role[y]) \in L!Rank /\ L!RankOf(new) \in L!Rank
    BY RoleRanks DEF L!TypeOK
  <2>3. ask \in L!Local
    BY <1>2, <2>2 DEF L!Local, L!Asking
  <2>4. y = Chief => L!RankOf(role[y]) = priority[Top]
    BY RolesAssumption DEF TopInv, TopIsForAdmin, L!TopIsForAdmin, L!RankOf, L!ConstantsAssumption
  <2>5. new = Top => L!RankOf(new) = priority[Top]
    BY RolesAssumption DEF L!RankOf, L!ConstantsAssumption
  <2> QED
    BY <1>0, <2>1, <2>3, <2>4, <2>5, TopMoves
<1> QED
  BY <1>1, <1>2

LEMMA CheckKeepsTop ==
  ASSUME L!TypeOK, TopInv, NEW p \in Request, NEW task \in L!Task, L!Check(p, task)
  PROVE  TopInv'
<1> DEFINE next == roleProc'[p]
<1>1. roleProc[p] \in L!Asking /\ UNCHANGED <<L!catalogue, role, lockedLecturers, byAdmin>>
  BY RoleLocals DEF L!Check, L!TypeOK
<1>2. \/ L!Goto(p, L!Write(FALSE, task, roleProc[p].target, roleProc[p].new))
      \/ L!Goto(p, L!Idle)
  BY DEF L!Check, L!End
<1>3. CASE L!Goto(p, L!Idle)
  BY <1>1, <1>3, IdleRole, TopMoves
<1>4. CASE L!Goto(p, L!Write(FALSE, task, roleProc[p].target, roleProc[p].new))
  <2>1. L!Write(FALSE, task, roleProc[p].target, roleProc[p].new) \in L!Local
    BY <1>1 DEF L!Write, L!Local, L!Allowed, L!Asking
  <2>2. roleProc'[p].pc = "write"
    BY <1>4, <2>1, RoleMoves DEF L!Write
  <2>3. roleProc[p].target # Chief /\ roleProc[p].new # Top
    BY <2>2, CheckSparesTop DEF TopInv
  <2> QED
    BY <1>1, <1>4, <2>1, <2>3, TopMoves DEF L!Write
<1> QED
  BY <1>2, <1>3, <1>4

LEMMA LockKeepsTop ==
  ASSUME L!TypeOK, TopInv, NEW p \in Request, L!LockWrite(p) \/ L!UnlockWrite(p) \/ L!UpdateWrite(p)
  PROVE  TopInv'
<1>1. /\ UNCHANGED <<L!catalogue, role, byAdmin>> /\ L!Goto(p, L!Idle)
      /\ roleProc[p].pc = "write"
      /\ lockedLecturers' \subseteq lockedLecturers \cup {roleProc[p].target}
  BY LockTypes DEF L!End
<1>2. roleProc[p].target # Chief
  BY <1>1 DEF TopInv, WritesSpareTop
<1>3. RolesAreListed' /\ TopIsForAdmin'
  BY <1>1, <1>2 DEF TopInv, RolesAreListed, TopIsForAdmin, L!TopIsForAdmin, L!catalogue, L!Orderly,
     L!Highest
<1>4. ChecksKnowTop' /\ WritesSpareTop'
  BY <1>1, IdleRole, RoleMoves DEF TopInv, ChecksKnowTop, WritesSpareTop, L!catalogue
<1> QED
  BY <1>3, <1>4 DEF TopInv

LEMMA AssignKeepsTop ==
  ASSUME L!TypeOK, TopInv, NEW p \in Request, L!AssignWrite(p)
  PROVE  TopInv'
<1> DEFINE y == roleProc[p].target
           new == roleProc[p].new
<1>1. /\ roleProc[p] \in L!Allowed /\ L!Goto(p, L!Idle)
      /\ UNCHANGED <<L!catalogue, lockedLecturers>>
  BY AssignTypes DEF L!AssignWrite, L!Writes, L!End
<1>2. y # Chief /\ (~roleProc[p].byAdmin => new # Top)
  BY DEF L!AssignWrite, L!Writes, TopInv, WritesSpareTop
<1>3. y \in Lecturer
  BY <1>1 DEF L!Allowed
<1>4. RolesAreListed'
  BY <1>1, <1>3 DEF L!AssignWrite, TopInv, RolesAreListed, L!catalogue, L!Orderly, L!Highest, L!TypeOK
<1>5. TopIsForAdmin'
  BY <1>1, <1>2, <1>3, RolesAssumption DEF L!AssignWrite, TopInv, TopIsForAdmin, L!TopIsForAdmin,
     L!TypeOK, L!ConstantsAssumption
<1>6. ChecksKnowTop' /\ WritesSpareTop'
  BY <1>1, IdleRole, RoleMoves DEF TopInv, ChecksKnowTop, WritesSpareTop, L!catalogue
<1> QED
  BY <1>4, <1>5, <1>6 DEF TopInv

LEMMA RemoveKeepsTop ==
  ASSUME L!TypeOK, TopInv, NEW p \in Request,
         L!RemoveWrite(p) \/ L!Fail(p) \/ \E r \in Role : L!RemoveRead(p, r)
  PROVE  TopInv'
<1>1. CASE L!RemoveWrite(p)
  <2> DEFINE r == roleProc[p].role
  <2>1. /\ L!Goto(p, L!Idle) /\ UNCHANGED <<priority, lockedLecturers, byAdmin>>
        /\ listed' = listed \ {r} /\ active' = active \ {r}
        /\ role' = [y \in Lecturer |-> IF role[y] = r THEN None ELSE role[y]]
        /\ L!Orderly'
    BY <1>1 DEF L!RemoveWrite, L!End
  <2>2. r # Top
    BY <2>1 DEF L!Orderly
  <2>3. RolesAreListed'
    BY <2>1 DEF TopInv, RolesAreListed
  <2>4. TopIsForAdmin'
    BY <2>1, <2>2, RolesAssumption DEF TopInv, TopIsForAdmin, L!TopIsForAdmin, L!ConstantsAssumption
  <2>5. ChecksKnowTop' /\ WritesSpareTop'
    BY <2>1, IdleRole, RoleMoves DEF TopInv, ChecksKnowTop, WritesSpareTop
  <2> QED
    BY <2>3, <2>4, <2>5 DEF TopInv
<1>2. CASE L!Fail(p)
  BY <1>2, IdleRole, TopMoves DEF L!Fail, L!End
<1>3. ASSUME NEW r \in Role, L!RemoveRead(p, r) PROVE TopInv'
  BY <1>3, TopMoves DEF L!RemoveRead, L!Local
<1> QED
  BY <1>1, <1>2, <1>3

LEMMA SaveKeepsTop ==
  ASSUME L!TypeOK, TopInv, NEW r \in Role, NEW n \in 1..MaxPriority, NEW isActive \in BOOLEAN,
         NEW isAdmin \in BOOLEAN, L!Save(r, n, isActive, isAdmin)
  PROVE  TopInv'
<1>1. RolesAreListed'
  BY DEF L!Save, TopInv, RolesAreListed
<1>2. TopIsForAdmin' /\ ChecksKnowTop' /\ WritesSpareTop'
  BY DEF L!Save, TopInv, TopIsForAdmin, L!TopIsForAdmin, ChecksKnowTop, WritesSpareTop
<1> QED
  BY <1>1, <1>2 DEF TopInv

LEMMA TopStep == ASSUME L!TypeOK, TopInv, [L!Next]_L!vars PROVE TopInv'
<1>1. ASSUME NEW p \in Request, L!Step(p) PROVE TopInv'
  <2>1. ASSUME NEW x \in Lecturer \cup {Admin}, NEW y \in Lecturer, NEW new \in Role \cup {None},
               \/ L!LockRead(p, x, y) \/ L!UnlockRead(p, x, y) \/ L!UpdateRead(p, x, y)
               \/ L!AssignRead(p, x, y, new)
        PROVE  TopInv'
    BY <2>1, AskKeepsTop DEF L!LockRead, L!UnlockRead, L!UpdateRead, L!AssignRead, L!Task
  <2>2. CASE L!LockCheck(p) \/ L!UnlockCheck(p) \/ L!UpdateCheck(p) \/ L!AssignCheck(p)
    BY <2>2, CheckKeepsTop DEF L!LockCheck, L!UnlockCheck, L!UpdateCheck, L!AssignCheck, L!Task
  <2>3. CASE L!LockWrite(p) \/ L!UnlockWrite(p) \/ L!UpdateWrite(p) \/ L!AssignWrite(p)
    BY <2>3, LockKeepsTop, AssignKeepsTop
  <2>4. CASE L!RemoveWrite(p) \/ L!Fail(p) \/ \E r \in Role : L!RemoveRead(p, r)
    BY <2>4, RemoveKeepsTop
  <2> QED
    BY <1>1, <2>1, <2>2, <2>3, <2>4 DEF L!Step
<1>2. CASE UNCHANGED L!vars
  BY <1>2 DEF L!vars, L!catalogue, TopInv, RolesAreListed, ChecksKnowTop, WritesSpareTop,
     TopIsForAdmin, L!TopIsForAdmin, L!Orderly, L!Highest
<1> QED
  BY <1>1, <1>2, SaveTypes, SaveKeepsTop DEF L!Next

(***************************************************************************)
(* Whatever lecturers do with ranks they have read before, and however     *)
(* roles are made, changed and removed meanwhile: only ADMIN gives         *)
(* somebody the highest role, and only ADMIN could move or lock its first  *)
(* holder.  A check compares with a limit no higher than Top, which is the *)
(* highest for good, so that what it lets pass is not about Top.           *)
(***************************************************************************)
THEOREM TopRoleIsForAdmin == L!Spec => []TopIsForAdmin
<1>1. L!Init => TopInv
  <2> SUFFICES ASSUME L!Init PROVE TopInv
    OBVIOUS
  <2>1. RolesAreListed
    BY RolesAssumption DEF L!Init, RolesAreListed, L!Orderly, L!Highest, L!ConstantsAssumption
  <2>2. TopIsForAdmin
    BY RolesAssumption DEF L!Init, TopIsForAdmin, L!TopIsForAdmin, L!ConstantsAssumption
  <2>3. ChecksKnowTop /\ WritesSpareTop
    BY IdleRole DEF L!Init, ChecksKnowTop, WritesSpareTop
  <2> QED
    BY <2>1, <2>2, <2>3 DEF TopInv
<1>2. L!TypeOK /\ TopInv /\ [L!Next]_L!vars => TopInv'
  BY TopStep
<1>3. TopInv => TopIsForAdmin
  BY DEF TopInv
<1> QED
  BY <1>1, <1>2, <1>3, RoleTypes, PTL DEF L!Spec

-----------------------------------------------------------------------------
(* Kyc: types                                                               *)

\* What a request holds goes with where it is.
LEMMA KycLocals ==
  ASSUME NEW x \in K!Local
  PROVE  /\ x.pc \in {"upload", "approve"} => x.photo \in K!Attempt
         /\ x.pc = "write" => x \in [pc : {"write"}, photo : K!Attempt, match : BOOLEAN,
                                     left : SUBSET K!Writes]
         /\ x.pc = "compare" => x.photo \in K!Attempt /\ x.score \in Score
  BY DEF K!Local, K!Idle

LEMMA KycMoves ==
  ASSUME K!TypeOK, NEW p \in Process, NEW next \in K!Local, K!Goto(p, next)
  PROVE  /\ kycProc' \in [Process -> K!Local] /\ kycProc'[p] = next
         /\ \A q \in Process : q # p => kycProc'[q] = kycProc[q]
  BY DEF K!TypeOK, K!Goto

LEMMA IdleKyc == K!Idle \in K!Local /\ K!Idle.pc = "idle"
  BY DEF K!Local, K!Idle

\* Who begins is alone, or nobody is.
LEMMA KycBegins ==
  ASSUME K!TypeOK, NEW p \in Process, NEW next \in K!Local, K!Begin(p, next)
  PROVE  /\ kycProc[p].pc = "idle" /\ K!Goto(p, next)
         /\ \/ (\A q \in Process : kycProc[q].pc = "idle") /\ alone' = p /\ whole' = whole
            \/ alone' = None /\ whole' = FALSE
         /\ alone' \in Process \cup {None} /\ whole' \in BOOLEAN
<1> DEFINE quiet == \A q \in Process : kycProc[q].pc = "idle"
<1>1. /\ kycProc[p].pc = "idle" /\ K!Goto(p, next)
      /\ alone' = (IF quiet THEN p ELSE None) /\ whole' = (whole /\ quiet)
  BY DEF K!Begin
<1>2. CASE quiet
  <2>1. alone' = p
    BY <1>1, <1>2
  <2>2. whole' = whole
    BY <1>1, <1>2, Zenon DEF K!TypeOK
  <2> QED
    BY <1>1, <1>2, <2>1, <2>2 DEF K!TypeOK
<1>3. CASE ~quiet
  <2>1. alone' = None
    BY <1>1, <1>3
  <2>2. whole' = FALSE
    BY <1>1, <1>3, Zenon DEF K!TypeOK
  <2> QED
    BY <1>1, <2>1, <2>2
<1> QED
  BY <1>2, <1>3

\* Who ends leaves the rows settled, if it was alone and set them all.
LEMMA KycEnds ==
  ASSUME K!TypeOK, NEW p \in Process, NEW settled \in BOOLEAN, K!End(p, settled)
  PROVE  /\ K!Goto(p, K!Idle) /\ alone' = alone /\ whole' \in BOOLEAN
         /\ whole' => whole \/ (settled /\ alone = p)
<1>1. K!Goto(p, K!Idle) /\ alone' = alone /\ whole' = (whole \/ (settled /\ alone = p))
  BY DEF K!End
<1>2. whole' \in BOOLEAN
  BY <1>1, Zenon
<1> QED
  BY <1>1, <1>2

\* One of a registration's writes is over: the last one, or the others are left.
LEMMA KycSent ==
  ASSUME K!TypeOK, NEW p \in Process, kycProc[p].pc = "write", NEW w \in kycProc[p].left,
         K!Sent(p, w)
  PROVE  /\ kycProc' \in [Process -> K!Local] /\ alone' = alone /\ whole' \in BOOLEAN
         /\ \A q \in Process : q # p => kycProc'[q] = kycProc[q]
         /\ \/ /\ kycProc[p].left \ {w} = {} /\ kycProc'[p] = K!Idle
               /\ whole' => whole \/ alone = p
            \/ /\ kycProc'[p] = [kycProc[p] EXCEPT !.left = kycProc[p].left \ {w}]
               /\ whole' = whole
<1> DEFINE left == kycProc[p].left \ {w}
           next == [kycProc[p] EXCEPT !.left = left]
<1>1. kycProc[p] \in [pc : {"write"}, photo : K!Attempt, match : BOOLEAN, left : SUBSET K!Writes]
  BY KycLocals DEF K!TypeOK
<1>2. next \in K!Local
  BY <1>1 DEF K!Local
<1>3. CASE left = {}
  <2>1. K!End(p, TRUE)
    BY <1>3 DEF K!Sent
  <2> QED
    BY <1>3, <2>1, KycEnds, IdleKyc, KycMoves
<1>4. CASE left # {}
  <2>1. K!Goto(p, next) /\ alone' = alone /\ whole' = whole
    BY <1>4 DEF K!Sent, K!solo
  <2> QED
    BY <1>2, <2>1, KycMoves DEF K!TypeOK
<1> QED
  BY <1>3, <1>4

LEMMA KycInit == K!Init => K!TypeOK
<1> SUFFICES ASSUME K!Init PROVE K!TypeOK
  OBVIOUS
<1>1. kycProc \in [Process -> K!Local]
  BY IdleKyc DEF K!Init
<1>2. card \in BOOLEAN /\ cardVerified \in BOOLEAN /\ whole \in BOOLEAN
  BY Zenon DEF K!Init
<1> QED
  BY <1>1, <1>2, KycAssumption DEF K!Init, K!TypeOK, K!ConstantsAssumption

\* The steps that begin something.
LEMMA KycBeginTypes ==
  ASSUME K!TypeOK, NEW p \in Process,
         \/ \E score \in Score : K!RegisterEmbed(p, score)
         \/ K!RequestRead(p) \/ K!ApproveRead(p) \/ K!RejectRead(p) \/ K!CancelRead(p)
  PROVE  K!TypeOK'
<1>1. ASSUME NEW score \in Score, K!RegisterEmbed(p, score) PROVE K!TypeOK'
  <2>1. attempts \in Nat /\ attempts + 1 \in K!Attempt /\ attempts' = attempts + 1
    BY <1>1, KycAssumption DEF K!RegisterEmbed, K!TypeOK, K!Attempt, K!ConstantsAssumption
  <2>2. [pc |-> "compare", photo |-> attempts + 1, score |-> score] \in K!Local
    BY <2>1 DEF K!Local
  <2>3. kycProc' \in [Process -> K!Local] /\ alone' \in Process \cup {None} /\ whole' \in BOOLEAN
    BY <1>1, <2>2, KycBegins, KycMoves DEF K!RegisterEmbed
  <2> QED
    BY <1>1, <2>1, <2>3, KycAssumption
    DEF K!RegisterEmbed, K!TypeOK, K!Attempt, K!rows, K!history, K!ConstantsAssumption
<1>2. ASSUME NEW next \in K!Local, K!Begin(p, next),
             UNCHANGED <<attempts, threshold, K!rows, K!history>>
      PROVE  K!TypeOK'
  <2>1. kycProc' \in [Process -> K!Local] /\ alone' \in Process \cup {None} /\ whole' \in BOOLEAN
    BY <1>2, KycBegins, KycMoves
  <2> QED
    BY <1>2, <2>1 DEF K!TypeOK, K!rows, K!history
<1>3. CASE K!ApproveRead(p)
  <2>1. [pc |-> "approve", photo |-> face] \in K!Local
    BY <1>3, KycAssumption DEF K!ApproveRead, K!Local, K!TypeOK, K!Attempt, K!ConstantsAssumption
  <2> QED
    BY <1>2, <1>3, <2>1 DEF K!ApproveRead
<1>4. \A l \in {"request", "reject", "cancel"} : [pc |-> l] \in K!Local
  BY DEF K!Local
<1>5. CASE K!RequestRead(p) BY <1>2, <1>4, <1>5 DEF K!RequestRead
<1>6. CASE K!RejectRead(p) BY <1>2, <1>4, <1>6 DEF K!RejectRead
<1>7. CASE K!CancelRead(p) BY <1>2, <1>4, <1>7 DEF K!CancelRead
<1> QED
  BY <1>1, <1>3, <1>5, <1>6, <1>7

LEMMA UploadTypes ==
  ASSUME K!TypeOK, NEW p \in Process, K!RegisterUpload(p)
  PROVE  /\ K!TypeOK'
         /\ kycProc[p].photo \in K!Attempt /\ kycProc[p].score \in Score
         /\ K!Matches(kycProc[p].score) \in BOOLEAN
<1> DEFINE me == kycProc[p]
           match == K!Matches(me.score)
           left == IF match THEN K!Writes ELSE K!Writes \ {"embedding"}
<1>1. me.photo \in K!Attempt /\ me.score \in Score
  BY KycLocals DEF K!RegisterUpload, K!TypeOK
<1>2. K!CardThreshold \in Int /\ me.score \in Int
  BY <1>1, KycAssumption DEF K!CardThreshold, K!TypeOK, K!ConstantsAssumption
<1>3. match \in BOOLEAN
  BY <1>2 DEF K!Matches
<1>4. [pc |-> "write", photo |-> me.photo, match |-> match, left |-> left] \in K!Local
  BY <1>1, <1>3 DEF K!Local
<1>5. kycProc' \in [Process -> K!Local]
  BY <1>4, KycMoves DEF K!RegisterUpload
<1>6. matched' \subseteq K!Attempt
  BY <1>1 DEF K!RegisterUpload, K!TypeOK
<1> QED
  BY <1>1, <1>3, <1>5, <1>6 DEF K!RegisterUpload, K!TypeOK, K!rows, K!solo

LEMMA WriteTypes ==
  ASSUME K!TypeOK, NEW p \in Process,
         \/ \E w \in K!Writes : K!StudentWrite(p, w)
         \/ K!EmbeddingWrite(p) \/ K!KycWrite(p)
  PROVE  K!TypeOK'
<1> USE DEF K!history
<1>1. ASSUME NEW w \in K!Writes, K!StudentWrite(p, w) PROVE K!TypeOK'
  <2>1. kycProc' \in [Process -> K!Local] /\ alone' = alone /\ whole' \in BOOLEAN
    BY <1>1, KycSent DEF K!StudentWrite
  <2>2. card' \in BOOLEAN /\ cardVerified' \in BOOLEAN
    BY <1>1, Zenon DEF K!StudentWrite, K!TypeOK
  <2> QED
    BY <1>1, <2>1, <2>2 DEF K!StudentWrite, K!TypeOK
<1>2. CASE K!EmbeddingWrite(p)
  <2>1. kycProc' \in [Process -> K!Local] /\ alone' = alone /\ whole' \in BOOLEAN
    BY <1>2, KycSent DEF K!EmbeddingWrite
  <2>2. embedding' \in 0..MaxAttempts
    BY <1>2, KycLocals, KycAssumption DEF K!EmbeddingWrite, K!TypeOK, K!Attempt, K!ConstantsAssumption
  <2> QED
    BY <1>2, <2>1, <2>2 DEF K!EmbeddingWrite, K!TypeOK
<1>3. CASE K!KycWrite(p)
  <2>1. kycProc' \in [Process -> K!Local] /\ alone' = alone /\ whole' \in BOOLEAN
    BY <1>3, KycSent DEF K!KycWrite
  <2>2. face' \in 0..MaxAttempts
    BY <1>3, KycLocals, KycAssumption DEF K!KycWrite, K!TypeOK, K!Attempt, K!ConstantsAssumption
  <2> QED
    BY <1>3, <2>1, <2>2 DEF K!KycWrite, K!NewReview, K!TypeOK
<1> QED
  BY <1>1, <1>2, <1>3

LEMMA VerdictTypes ==
  ASSUME K!TypeOK, NEW p \in Process,
         K!RequestWrite(p) \/ K!ApproveWrite(p) \/ K!RejectWrite(p)
  PROVE  K!TypeOK'
<1>1. ASSUME NEW settled \in BOOLEAN, K!End(p, settled)
      PROVE  kycProc' \in [Process -> K!Local] /\ alone' = alone /\ whole' \in BOOLEAN
  BY <1>1, KycEnds, IdleKyc, KycMoves
<1>2. CASE K!RequestWrite(p)
  BY <1>1, <1>2 DEF K!RequestWrite, K!TypeOK
<1>3. CASE K!ApproveWrite(p)
  <2>1. embedding' \in 0..MaxAttempts
    BY <1>3, KycLocals, KycAssumption DEF K!ApproveWrite, K!TypeOK, K!Attempt, K!ConstantsAssumption
  <2>2. cardVerified' \in BOOLEAN
    BY <1>3, Zenon DEF K!ApproveWrite, K!ApproveCard
  <2> QED
    BY <1>1, <1>3, <2>1, <2>2 DEF K!ApproveWrite, K!Verdict, K!TypeOK
<1>4. CASE K!RejectWrite(p)
  BY <1>1, <1>4 DEF K!RejectWrite, K!Verdict, K!TypeOK
<1> QED
  BY <1>2, <1>3, <1>4

\* A request that fails, with all or one of its writes, was not alone with its rows.
LEMMA FailTypes ==
  ASSUME K!TypeOK, NEW p \in Process, K!Fail(p) \/ \E w \in K!Writes : K!WriteFails(p, w)
  PROVE  /\ K!TypeOK' /\ UNCHANGED <<K!rows, K!history>>
         /\ alone' = None /\ whole' = FALSE /\ kycProc[p].pc # "idle"
         /\ \A q \in Process : q # p => kycProc'[q] = kycProc[q]
         /\ \/ kycProc'[p] = K!Idle
            \/ \E w \in K!Writes :
                 /\ kycProc[p].pc = "write"
                 /\ kycProc'[p] = [kycProc[p] EXCEPT !.left = kycProc[p].left \ {w}]
<1>1. ASSUME NEW next \in K!Local, K!Goto(p, next), UNCHANGED <<attempts, threshold, K!rows, K!history>>,
             alone' = None, whole' = FALSE
      PROVE  K!TypeOK'
  <2>1. kycProc' \in [Process -> K!Local]
    BY <1>1, KycMoves
  <2> QED
    BY <1>1, <2>1 DEF K!TypeOK, K!rows, K!history
<1>2. CASE K!Fail(p)
  BY <1>1, <1>2, IdleKyc, KycMoves DEF K!Fail
<1>3. ASSUME NEW w \in K!Writes, K!WriteFails(p, w)
      PROVE  /\ K!TypeOK' /\ kycProc[p].pc = "write"
             /\ \A q \in Process : q # p => kycProc'[q] = kycProc[q]
             /\ \/ kycProc'[p] = K!Idle
                \/ kycProc'[p] = [kycProc[p] EXCEPT !.left = kycProc[p].left \ {w}]
  <2> DEFINE next == IF kycProc[p].left = {w} THEN K!Idle
                     ELSE [kycProc[p] EXCEPT !.left = kycProc[p].left \ {w}]
  <2>1. kycProc[p].pc = "write" /\ K!Goto(p, next)
    BY <1>3 DEF K!WriteFails
  <2>2. kycProc[p] \in [pc : {"write"}, photo : K!Attempt, match : BOOLEAN, left : SUBSET K!Writes]
    BY <2>1, KycLocals DEF K!TypeOK
  <2>3. next \in K!Local
    BY <2>2, IdleKyc DEF K!Local
  <2>4. K!TypeOK'
    BY <1>1, <1>3, <2>1, <2>3 DEF K!WriteFails
  <2> QED
    BY <2>1, <2>3, <2>4, KycMoves
<1> QED
  BY <1>2, <1>3 DEF K!Fail, K!WriteFails

LEMMA CancelTypes ==
  ASSUME K!TypeOK, NEW p \in Process,
         K!CancelWrite(p) \/ \E written \in BOOLEAN : K!CancelCard(p, written)
  PROVE  K!TypeOK'
<1>1. CASE K!CancelWrite(p)
  <2>1. [pc |-> "uncard"] \in K!Local
    BY DEF K!Local
  <2>2. kycProc' \in [Process -> K!Local]
    BY <1>1, <2>1, KycMoves DEF K!CancelWrite
  <2> QED
    BY <1>1, <2>2 DEF K!CancelWrite, K!TypeOK, K!history, K!solo
<1>2. ASSUME NEW written \in BOOLEAN, K!CancelCard(p, written) PROVE K!TypeOK'
  <2>1. cardVerified' \in BOOLEAN
    BY <1>2, Zenon DEF K!CancelCard, K!TypeOK
  <2>2. kycProc' \in [Process -> K!Local] /\ alone' \in Process \cup {None} /\ whole' \in BOOLEAN
    <3>1. CASE written
      BY <1>2, <3>1, KycEnds, IdleKyc, KycMoves DEF K!CancelCard, K!TypeOK
    <3>2. CASE ~written
      BY <1>2, <3>2, IdleKyc, KycMoves DEF K!CancelCard
    <3> QED
      BY <3>1, <3>2
  <2> QED
    BY <1>2, <2>1, <2>2 DEF K!CancelCard, K!TypeOK, K!history
<1> QED
  BY <1>1, <1>2

LEMMA KycStepTypes == ASSUME K!TypeOK, [K!Next]_K!vars PROVE K!TypeOK'
<1>1. ASSUME NEW p \in Process, K!Step(p) PROVE K!TypeOK'
  BY <1>1, KycBeginTypes, UploadTypes, WriteTypes, VerdictTypes, FailTypes, CancelTypes DEF K!Step
<1>2. ASSUME NEW t \in Score, K!SetThreshold(t) PROVE K!TypeOK'
  BY <1>2 DEF K!SetThreshold, K!TypeOK, K!rows, K!history, K!solo
<1>3. CASE UNCHANGED K!vars
  BY <1>3 DEF K!vars, K!rows, K!history, K!solo, K!TypeOK
<1> QED
  BY <1>1, <1>2, <1>3 DEF K!Next

LEMMA KycTypes == K!Spec => []K!TypeOK
  BY KycInit, KycStepTypes, PTL DEF K!Spec

-----------------------------------------------------------------------------
(* Kyc: the face the booth compares with                                    *)

\* Who may still write the embedding has a photograph somebody vouches for: a
\* registration that has still to write it has found it to match, a reviewer
\* who is to approve has the one the student asked about.  While a review is
\* pending, the photograph on record is that one.
PhotosAreVouchedFor ==
  \A p \in Process :
    /\ kycProc[p].pc = "write" /\ "embedding" \in kycProc[p].left => kycProc[p].photo \in matched
    /\ kycProc[p].pc = "approve" => kycProc[p].photo \in requested

FaceInv ==
  /\ FaceIsVouchedFor /\ PhotosAreVouchedFor
  /\ review = "PENDING" => face \in {0} \cup requested

\* A step that leaves the rows alone, but for what follows the photographs.
LEMMA FaceMoves ==
  ASSUME K!TypeOK, FaceInv, NEW p \in Process, NEW next \in K!Local, K!Goto(p, next),
         UNCHANGED <<embedding, face, matched, requested>>, review' # "PENDING" \/ review' = review,
         next.pc = "write" /\ "embedding" \in next.left => next.photo \in matched,
         next.pc = "approve" => next.photo \in requested
  PROVE  FaceInv'
<1>1. PhotosAreVouchedFor'
  BY KycMoves DEF FaceInv, PhotosAreVouchedFor
<1> QED
  BY <1>1 DEF FaceInv, FaceIsVouchedFor, K!FaceIsVouchedFor

LEMMA FaceBegins ==
  ASSUME K!TypeOK, FaceInv, NEW p \in Process,
         \/ \E score \in Score : K!RegisterEmbed(p, score)
         \/ K!RequestRead(p) \/ K!ApproveRead(p) \/ K!RejectRead(p) \/ K!CancelRead(p)
  PROVE  FaceInv'
<1> USE KycBegins DEF K!rows, K!history
<1>1. ASSUME NEW score \in Score, K!RegisterEmbed(p, score) PROVE FaceInv'
  <2>1. attempts + 1 \in K!Attempt
    BY <1>1, KycAssumption DEF K!RegisterEmbed, K!TypeOK, K!Attempt, K!ConstantsAssumption
  <2>2. [pc |-> "compare", photo |-> attempts + 1, score |-> score] \in K!Local
    BY <2>1 DEF K!Local
  <2> QED
    BY <1>1, <2>2, FaceMoves DEF K!RegisterEmbed
<1>2. CASE K!ApproveRead(p)
  <2>1. [pc |-> "approve", photo |-> face] \in K!Local /\ face \in requested
    BY <1>2, KycAssumption
    DEF K!ApproveRead, K!Local, K!TypeOK, K!Attempt, K!ConstantsAssumption, FaceInv
  <2> QED
    BY <1>2, <2>1, FaceMoves DEF K!ApproveRead
<1>3. \A l \in {"request", "reject", "cancel"} : [pc |-> l] \in K!Local
  BY DEF K!Local
<1>4. CASE K!RequestRead(p) BY <1>3, <1>4, FaceMoves DEF K!RequestRead
<1>5. CASE K!RejectRead(p) BY <1>3, <1>5, FaceMoves DEF K!RejectRead
<1>6. CASE K!CancelRead(p) BY <1>3, <1>6, FaceMoves DEF K!CancelRead
<1> QED
  BY <1>1, <1>2, <1>4, <1>5, <1>6

LEMMA FaceUpload ==
  ASSUME K!TypeOK, FaceInv, NEW p \in Process, K!RegisterUpload(p)
  PROVE  FaceInv'
<1> DEFINE me == kycProc[p]
           match == K!Matches(me.score)
           next == [pc |-> "write", photo |-> me.photo, match |-> match,
                    left |-> IF match THEN K!Writes ELSE K!Writes \ {"embedding"}]
<1>1. next \in K!Local
  BY UploadTypes DEF K!Local
<1>2. /\ kycProc'[p] = next
      /\ \A q \in Process : q # p => kycProc'[q] = kycProc[q]
  BY <1>1, KycMoves DEF K!RegisterUpload
<1>3. matched \subseteq matched' /\ (match => me.photo \in matched')
      /\ UNCHANGED <<requested, K!rows>>
  BY DEF K!RegisterUpload
<1>4. PhotosAreVouchedFor'
  BY <1>2, <1>3 DEF FaceInv, PhotosAreVouchedFor
<1> QED
  BY <1>3, <1>4 DEF FaceInv, FaceIsVouchedFor, K!FaceIsVouchedFor, K!rows

\* What is left of a registration's writes is less than it was.
LEMMA FaceSent ==
  ASSUME K!TypeOK, FaceInv, NEW p \in Process, kycProc[p].pc = "write",
         UNCHANGED <<matched, requested>>, NEW w,
         \A q \in Process : q # p => kycProc'[q] = kycProc[q],
         \/ kycProc'[p] = K!Idle
         \/ kycProc'[p] = [kycProc[p] EXCEPT !.left = kycProc[p].left \ {w}]
  PROVE  PhotosAreVouchedFor'
<1>1. kycProc[p] \in [pc : {"write"}, photo : K!Attempt, match : BOOLEAN, left : SUBSET K!Writes]
  BY KycLocals DEF K!TypeOK
<1>2. /\ kycProc'[p].pc = "write" /\ "embedding" \in kycProc'[p].left => kycProc'[p].photo \in matched
      /\ kycProc'[p].pc # "approve"
  BY <1>1, IdleKyc DEF FaceInv, PhotosAreVouchedFor
<1> QED
  BY <1>2 DEF FaceInv, PhotosAreVouchedFor

LEMMA FaceWrites ==
  ASSUME K!TypeOK, FaceInv, NEW p \in Process,
         \/ \E w \in K!Writes : K!StudentWrite(p, w)
         \/ K!EmbeddingWrite(p) \/ K!KycWrite(p)
  PROVE  FaceInv'
<1> USE DEF K!history
<1>1. ASSUME NEW w \in K!Writes, K!StudentWrite(p, w) PROVE FaceInv'
  <2>1. PhotosAreVouchedFor'
    BY <1>1, KycSent, FaceSent DEF K!StudentWrite
  <2> QED
    BY <1>1, <2>1 DEF K!StudentWrite, FaceInv, FaceIsVouchedFor, K!FaceIsVouchedFor
<1>2. CASE K!EmbeddingWrite(p)
  <2>1. PhotosAreVouchedFor'
    BY <1>2, KycSent, FaceSent DEF K!EmbeddingWrite
  <2>2. embedding' \in matched
    BY <1>2 DEF K!EmbeddingWrite, FaceInv, PhotosAreVouchedFor
  <2> QED
    BY <1>2, <2>1, <2>2 DEF K!EmbeddingWrite, FaceInv, FaceIsVouchedFor, K!FaceIsVouchedFor
<1>3. CASE K!KycWrite(p)
  <2>1. PhotosAreVouchedFor'
    BY <1>3, KycSent, FaceSent DEF K!KycWrite
  <2> QED
    BY <1>3, <2>1 DEF K!KycWrite, K!NewReview, FaceInv, FaceIsVouchedFor, K!FaceIsVouchedFor
<1> QED
  BY <1>1, <1>2, <1>3

LEMMA FaceVerdicts ==
  ASSUME K!TypeOK, FaceInv, NEW p \in Process,
         \/ K!RequestWrite(p) \/ K!ApproveWrite(p) \/ K!RejectWrite(p)
         \/ K!CancelWrite(p) \/ \E written \in BOOLEAN : K!CancelCard(p, written)
  PROVE  FaceInv'
<1>1. CASE K!RequestWrite(p)
  <2>1. kycProc'[p] = K!Idle /\ \A q \in Process : q # p => kycProc'[q] = kycProc[q]
    BY <1>1, KycEnds, IdleKyc, KycMoves DEF K!RequestWrite
  <2>2. face \in {0} \cup requested' /\ requested \subseteq requested'
    BY <1>1, KycAssumption DEF K!RequestWrite, K!TypeOK, K!Attempt, K!ConstantsAssumption
  <2>3. PhotosAreVouchedFor'
    BY <1>1, <2>1, <2>2, IdleKyc DEF K!RequestWrite, FaceInv, PhotosAreVouchedFor
  <2> QED
    BY <1>1, <2>2, <2>3 DEF K!RequestWrite, FaceInv, FaceIsVouchedFor, K!FaceIsVouchedFor
<1>2. CASE K!ApproveWrite(p)
  <2>1. kycProc'[p] = K!Idle /\ \A q \in Process : q # p => kycProc'[q] = kycProc[q]
    BY <1>2, KycEnds, IdleKyc, KycMoves DEF K!ApproveWrite
  <2>2. embedding' \in requested
    BY <1>2 DEF K!ApproveWrite, FaceInv, PhotosAreVouchedFor
  <2>3. PhotosAreVouchedFor'
    BY <1>2, <2>1, IdleKyc DEF K!ApproveWrite, FaceInv, PhotosAreVouchedFor
  <2> QED
    BY <1>2, <2>2, <2>3 DEF K!ApproveWrite, K!Verdict, FaceInv, FaceIsVouchedFor, K!FaceIsVouchedFor
<1>3. CASE K!RejectWrite(p)
  BY <1>3, KycEnds, IdleKyc, FaceMoves DEF K!RejectWrite, K!Verdict
<1>4. CASE K!CancelWrite(p)
  <2>1. [pc |-> "uncard"] \in K!Local
    BY DEF K!Local
  <2> QED
    BY <1>4, <2>1, FaceMoves DEF K!CancelWrite, K!history
<1>5. ASSUME NEW written \in BOOLEAN, K!CancelCard(p, written) PROVE FaceInv'
  <2>1. K!Goto(p, K!Idle)
    BY <1>5, KycEnds DEF K!CancelCard
  <2> QED
    BY <1>5, <2>1, IdleKyc, FaceMoves DEF K!CancelCard, K!history
<1> QED
  BY <1>1, <1>2, <1>3, <1>4, <1>5

LEMMA FaceFails ==
  ASSUME K!TypeOK, FaceInv, NEW p \in Process,
         K!Fail(p) \/ \E w \in K!Writes : K!WriteFails(p, w)
  PROVE  FaceInv'
<1>1. PhotosAreVouchedFor'
  <2>1. CASE kycProc'[p] = K!Idle
    BY <2>1, FailTypes, IdleKyc DEF FaceInv, PhotosAreVouchedFor, K!history
  <2>2. ASSUME NEW w \in K!Writes, kycProc[p].pc = "write",
               kycProc'[p] = [kycProc[p] EXCEPT !.left = kycProc[p].left \ {w}]
        PROVE  PhotosAreVouchedFor'
    BY <2>2, FailTypes, FaceSent DEF K!history
  <2> QED
    BY <2>1, <2>2, FailTypes
<1> QED
  BY <1>1, FailTypes DEF FaceInv, FaceIsVouchedFor, K!FaceIsVouchedFor, K!rows, K!history

LEMMA FaceStep == ASSUME K!TypeOK, FaceInv, [K!Next]_K!vars PROVE FaceInv'
<1>1. ASSUME NEW p \in Process, K!Step(p) PROVE FaceInv'
  BY <1>1, FaceBegins, FaceUpload, FaceWrites, FaceVerdicts, FaceFails DEF K!Step
<1>2. CASE (\E t \in Score : K!SetThreshold(t)) \/ UNCHANGED K!vars
  BY <1>2 DEF K!SetThreshold, K!vars, K!rows, K!history, FaceInv, PhotosAreVouchedFor,
     FaceIsVouchedFor, K!FaceIsVouchedFor
<1> QED
  BY <1>1, <1>2 DEF K!Next

(***************************************************************************)
(* The booth compares faces only with a photograph that matched the card   *)
(* or that the student asked a reviewer about, whatever registrations,     *)
(* requests and verdicts overlap and whichever of their writes are lost: a *)
(* new photograph on record takes the request for the old one away.        *)
(***************************************************************************)
THEOREM FacesAreVouchedFor == K!Spec => []FaceIsVouchedFor
<1>1. K!Init => FaceInv
  BY IdleKyc DEF K!Init, FaceInv, PhotosAreVouchedFor, FaceIsVouchedFor, K!FaceIsVouchedFor
<1>2. K!TypeOK /\ FaceInv /\ [K!Next]_K!vars => FaceInv'
  BY FaceStep
<1>3. FaceInv => FaceIsVouchedFor
  BY DEF FaceInv
<1> QED
  BY <1>1, <1>2, <1>3, KycTypes, PTL DEF K!Spec

(***************************************************************************)
(* The three modules about people keep the types of their rows and of what *)
(* each request holds.                                                     *)
(***************************************************************************)
THEOREM PeopleAreTyped == A!Spec /\ L!Spec /\ K!Spec => []TypeOK
<1>1. A!TypeOK /\ L!TypeOK /\ K!TypeOK => TypeOK
  BY DEF TypeOK
<1> QED
  BY <1>1, AccountTypes, RoleTypes, KycTypes, PTL

-----------------------------------------------------------------------------
(* Kyc: the rows agree again                                                *)

\* One request at most is alone, and while the rows are whole every request
\* under way is.
AloneIsAlone ==
  \A p \in Process :
    /\ whole /\ kycProc[p].pc # "idle" => alone = p
    /\ alone = p => \A q \in Process : q # p => kycProc[q].pc = "idle"

\* What the rows show of the writes of p that are over, nobody else writing.
WrittenBy(p) ==
  LET me == kycProc[p] IN
  /\ "kyc" \notin me.left =>
       /\ status = (IF me.match THEN "VERIFIED" ELSE "REJECTED")
       /\ face = me.photo /\ review = "NOT_REQUESTED"
  /\ me.match /\ "embedding" \notin me.left => embedding = me.photo
  /\ me.match /\ ("student" \notin me.left \/ "profile" \notin me.left) => cardVerified
  /\ ~me.match /\ "student" \notin me.left => ~cardVerified

\* What holds of the rows while p is alone with them.
SoloRows(p) ==
  /\ kycProc[p].pc = "write" => WrittenBy(p)
  /\ kycProc[p].pc = "approve" => kycProc[p].photo = face
  /\ kycProc[p].pc = "request" => status = "REJECTED"
  /\ kycProc[p].pc = "uncard" => status = "REJECTED" /\ review = "NOT_REQUESTED"

\* The rows agree, and who waits for a review is not verified.
Agreed == K!RowsAgree /\ (review = "PENDING" => status # "VERIFIED")

\* Requests that leave the rows agreeing as they are until they end.
Calm(p) == kycProc[p].pc \in {"idle", "request", "reject"}

RepairInv ==
  /\ AloneIsAlone
  /\ \A p \in Process : alone = p => SoloRows(p)
  /\ whole /\ (\A p \in Process : Calm(p)) => Agreed
  /\ whole => \A p \in Process : kycProc[p].pc = "reject" => status # "VERIFIED"

\* What is to be shown of a step of p, alone or not.
LEMMA RepairMoves ==
  ASSUME K!TypeOK, RepairInv, NEW p \in Process,
         \A q \in Process : q # p => kycProc'[q] = kycProc[q],
         alone' \in {p, None}, whole' => alone' = p,
         alone' = p => (\A q \in Process : q # p => kycProc[q].pc = "idle") /\ SoloRows(p)',
         whole' /\ Calm(p)' => Agreed',
         whole' /\ kycProc'[p].pc = "reject" => status' # "VERIFIED"
  PROVE  RepairInv'
<1>1. AloneIsAlone'
  BY KycAssumption DEF AloneIsAlone, K!ConstantsAssumption
<1>2. \A q \in Process : alone' = q => q = p
  BY KycAssumption DEF K!ConstantsAssumption
<1>3. (whole => \A q \in Process : kycProc[q].pc = "reject" => status # "VERIFIED")'
  BY <1>1 DEF AloneIsAlone
<1> QED
  BY <1>1, <1>2, <1>3 DEF RepairInv

\* Who is under way is the only one who can be alone, and is while rows are whole.
LEMMA RepairActive ==
  ASSUME K!TypeOK, RepairInv, NEW p \in Process, kycProc[p].pc # "idle"
  PROVE  /\ alone \in {p, None} /\ (whole => alone = p)
         /\ alone = p => (\A q \in Process : q # p => kycProc[q].pc = "idle") /\ SoloRows(p)
         /\ whole /\ Calm(p) => Agreed
         /\ whole /\ kycProc[p].pc = "reject" => status # "VERIFIED"
<1>1. alone \in {p, None} /\ (whole => alone = p)
  BY DEF RepairInv, AloneIsAlone, K!TypeOK
<1>2. alone = p => (\A q \in Process : q # p => kycProc[q].pc = "idle") /\ SoloRows(p)
  BY DEF RepairInv, AloneIsAlone
<1>3. whole /\ Calm(p) => Agreed
  BY <1>1, <1>2 DEF RepairInv, Calm
<1> QED
  BY <1>1, <1>2, <1>3 DEF RepairInv

LEMMA RepairBegins ==
  ASSUME K!TypeOK, RepairInv, NEW p \in Process,
         \/ \E score \in Score : K!RegisterEmbed(p, score)
         \/ K!RequestRead(p) \/ K!ApproveRead(p) \/ K!RejectRead(p) \/ K!CancelRead(p)
  PROVE  RepairInv'
<1>1. ASSUME NEW next \in K!Local, K!Begin(p, next), UNCHANGED K!rows,
             next.pc \in {"compare", "approve", "request", "reject", "cancel"},
             next.pc = "approve" => next.photo = face,
             next.pc = "request" => status = "REJECTED",
             next.pc = "reject" => review = "PENDING"
      PROVE  RepairInv'
  <2>1. /\ kycProc'[p] = next /\ \A q \in Process : q # p => kycProc'[q] = kycProc[q]
        /\ \/ (\A q \in Process : kycProc[q].pc = "idle") /\ alone' = p /\ whole' = whole
           \/ alone' = None /\ whole' = FALSE
    BY <1>1, KycBegins, KycMoves
  <2>2. whole' => Agreed
    BY <2>1 DEF RepairInv, Calm
  <2>3. Agreed <=> Agreed'
    BY <1>1 DEF Agreed, K!RowsAgree, K!rows
  <2>4. SoloRows(p)'
    BY <1>1, <2>1 DEF SoloRows, K!rows
  <2>5. whole' /\ kycProc'[p].pc = "reject" => status' # "VERIFIED"
    BY <1>1, <2>1, <2>2 DEF Agreed, K!rows
  <2>6. alone' = p => \A q \in Process : kycProc[q].pc = "idle"
    BY <2>1, KycAssumption DEF K!ConstantsAssumption
  <2> QED
    BY <2>1, <2>2, <2>3, <2>4, <2>5, <2>6, RepairMoves
<1>2. ASSUME NEW score \in Score, K!RegisterEmbed(p, score) PROVE RepairInv'
  <2>1. attempts + 1 \in K!Attempt
    BY <1>2, KycAssumption DEF K!RegisterEmbed, K!TypeOK, K!Attempt, K!ConstantsAssumption
  <2>2. [pc |-> "compare", photo |-> attempts + 1, score |-> score] \in K!Local
    BY <2>1 DEF K!Local
  <2> QED
    BY <1>1, <1>2, <2>2 DEF K!RegisterEmbed
<1>3. CASE K!ApproveRead(p)
  <2>1. [pc |-> "approve", photo |-> face] \in K!Local
    BY <1>3, KycAssumption DEF K!ApproveRead, K!Local, K!TypeOK, K!Attempt, K!ConstantsAssumption
  <2> QED
    BY <1>1, <1>3, <2>1 DEF K!ApproveRead
<1>4. \A l \in {"request", "reject", "cancel"} : [pc |-> l] \in K!Local
  BY DEF K!Local
<1>5. CASE K!RequestRead(p) BY <1>1, <1>4, <1>5 DEF K!RequestRead
<1>6. CASE K!RejectRead(p) BY <1>1, <1>4, <1>6 DEF K!RejectRead
<1>7. CASE K!CancelRead(p) BY <1>1, <1>4, <1>7 DEF K!CancelRead
<1> QED
  BY <1>2, <1>3, <1>5, <1>6, <1>7

LEMMA RepairUpload ==
  ASSUME K!TypeOK, RepairInv, NEW p \in Process, K!RegisterUpload(p)
  PROVE  RepairInv'
<1> DEFINE me == kycProc[p]
           match == K!Matches(me.score)
           next == [pc |-> "write", photo |-> me.photo, match |-> match,
                    left |-> IF match THEN K!Writes ELSE K!Writes \ {"embedding"}]
<1>1. next \in K!Local
  BY UploadTypes DEF K!Local
<1>2. kycProc'[p] = next /\ \A q \in Process : q # p => kycProc'[q] = kycProc[q]
  BY <1>1, KycMoves DEF K!RegisterUpload
<1>3. /\ "kyc" \in next.left /\ "student" \in next.left /\ "profile" \in next.left
      /\ (next.match => "embedding" \in next.left)
  BY DEF K!Writes
<1>4. SoloRows(p)'
  BY <1>2, <1>3 DEF SoloRows, WrittenBy
<1>5. me.pc # "idle" /\ UNCHANGED K!solo
  BY DEF K!RegisterUpload
<1> QED
  BY <1>2, <1>4, <1>5, RepairActive, RepairMoves DEF K!solo, Calm

\* The rows after one of the writes of p: as p leaves them, and whole again
\* after the last.
LEMMA RepairSent ==
  ASSUME K!TypeOK, RepairInv, NEW p \in Process, kycProc[p].pc = "write",
         NEW w \in kycProc[p].left, K!Sent(p, w), K!TypeOK',
         alone = p =>
           LET me == kycProc[p]
               left == kycProc[p].left \ {w}
           IN
           /\ "kyc" \notin left =>
                /\ status' = (IF me.match THEN "VERIFIED" ELSE "REJECTED")
                /\ face' = me.photo /\ review' = "NOT_REQUESTED"
           /\ me.match /\ "embedding" \notin left => embedding' = me.photo
           /\ me.match /\ ("student" \notin left \/ "profile" \notin left) => cardVerified'
           /\ ~me.match /\ "student" \notin left => ~cardVerified'
  PROVE  RepairInv'
<1> DEFINE me == kycProc[p]
           left == me.left \ {w}
<1>1. me \in [pc : {"write"}, photo : K!Attempt, match : BOOLEAN, left : SUBSET K!Writes]
  BY KycLocals DEF K!TypeOK
<1>2. me.photo # 0
  BY <1>1 DEF K!Attempt
<1>3. CASE left = {} /\ kycProc'[p] = K!Idle /\ (whole' => whole \/ alone = p)
  <2>1. SoloRows(p)'
    BY <1>3, IdleKyc DEF SoloRows
  <2>2. alone = p => Agreed'
    <3> SUFFICES ASSUME alone = p PROVE Agreed'
      OBVIOUS
    <3>1. /\ status' = (IF me.match THEN "VERIFIED" ELSE "REJECTED")
          /\ face' = me.photo /\ review' = "NOT_REQUESTED"
          /\ me.match => embedding' = me.photo
      BY <1>3
    <3>2. cardVerified' \in BOOLEAN /\ (me.match => cardVerified') /\ (~me.match => ~cardVerified')
      <4>1. cardVerified' \in BOOLEAN
        BY DEF K!TypeOK
      <4> QED
        BY <1>3, <4>1, Zenon
    <3>3. (status' = "VERIFIED") = cardVerified'
      BY <3>1, <3>2
    <3> QED
      BY <1>2, <3>1, <3>3 DEF Agreed, K!RowsAgree
  <2> QED
    BY <1>3, <2>1, <2>2, KycSent, RepairActive, RepairMoves, IdleKyc
<1>4. CASE kycProc'[p] = [me EXCEPT !.left = left] /\ whole' = whole
  <2>1. kycProc'[p].pc = "write"
    BY <1>1, <1>4
  <2>2. alone = p => SoloRows(p)'
    BY <1>1, <1>4 DEF SoloRows, WrittenBy
  <2> QED
    BY <1>4, <2>1, <2>2, KycSent, RepairActive, RepairMoves DEF Calm
<1> QED
  BY <1>3, <1>4, KycSent

LEMMA RepairWrites ==
  ASSUME K!TypeOK, RepairInv, NEW p \in Process,
         \/ \E w \in K!Writes : K!StudentWrite(p, w)
         \/ K!EmbeddingWrite(p) \/ K!KycWrite(p)
  PROVE  RepairInv'
<1> DEFINE me == kycProc[p]
<1>1. me.pc = "write"
  BY DEF K!StudentWrite, K!EmbeddingWrite, K!KycWrite
<1>2. alone = p => WrittenBy(p)
  BY <1>1, RepairActive DEF SoloRows
<1>3. me.match \in BOOLEAN /\ K!TypeOK'
  BY <1>1, KycLocals, WriteTypes DEF K!TypeOK
<1>4. ASSUME NEW w \in K!Writes, K!StudentWrite(p, w) PROVE RepairInv'
  <2>1. w \in me.left /\ w \in {"student", "profile"} /\ K!Sent(p, w)
        /\ UNCHANGED <<status, review, face, embedding>>
    BY <1>4 DEF K!StudentWrite
  <2>2. /\ me.match => cardVerified'
        /\ ~me.match /\ w = "student" => ~cardVerified'
        /\ ~me.match /\ w # "student" => (cardVerified' <=> cardVerified)
    BY <1>4, <1>3, Zenon DEF K!StudentWrite
  <2> QED
    BY <1>1, <1>2, <1>3, <2>1, <2>2, RepairSent DEF WrittenBy
<1>5. CASE K!EmbeddingWrite(p)
  <2>1. /\ "embedding" \in me.left /\ K!Sent(p, "embedding") /\ embedding' = me.photo
        /\ UNCHANGED <<status, review, face, cardVerified>>
    BY <1>5 DEF K!EmbeddingWrite
  <2> QED
    BY <1>1, <1>2, <1>3, <2>1, RepairSent DEF WrittenBy
<1>6. CASE K!KycWrite(p)
  <2>1. /\ "kyc" \in me.left /\ K!Sent(p, "kyc")
        /\ status' = (IF me.match THEN "VERIFIED" ELSE "REJECTED")
        /\ face' = me.photo /\ review' = "NOT_REQUESTED"
        /\ UNCHANGED <<embedding, cardVerified>>
    BY <1>6 DEF K!KycWrite, K!NewReview
  <2> QED
    BY <1>1, <1>2, <1>3, <2>1, RepairSent DEF WrittenBy
<1> QED
  BY <1>4, <1>5, <1>6

LEMMA RepairVerdicts ==
  ASSUME K!TypeOK, RepairInv, NEW p \in Process,
         K!RequestWrite(p) \/ K!ApproveWrite(p) \/ K!RejectWrite(p)
  PROVE  RepairInv'
<1>1. CASE K!RequestWrite(p)
  <2>1. /\ kycProc[p].pc = "request" /\ K!End(p, FALSE) /\ review' = "PENDING"
        /\ UNCHANGED <<status, face, cardVerified, embedding>>
    BY <1>1 DEF K!RequestWrite
  <2>2. /\ kycProc'[p] = K!Idle /\ alone' = alone /\ (whole' => whole)
        /\ \A q \in Process : q # p => kycProc'[q] = kycProc[q]
    BY <2>1, KycEnds, IdleKyc, KycMoves
  <2>3. whole => Agreed'
    BY <2>1, RepairActive DEF Agreed, K!RowsAgree, SoloRows, Calm
  <2>4. SoloRows(p)'
    BY <2>2, IdleKyc DEF SoloRows
  <2> QED
    BY <2>1, <2>2, <2>3, <2>4, IdleKyc, RepairActive, RepairMoves
<1>2. CASE K!ApproveWrite(p)
  <2>1. /\ kycProc[p].pc = "approve" /\ K!End(p, TRUE)
        /\ status' = "VERIFIED" /\ review' = "APPROVED" /\ face' = face
        /\ embedding' = kycProc[p].photo
    BY <1>2 DEF K!ApproveWrite, K!Verdict
  <2>2. cardVerified' = TRUE
    BY <1>2, Zenon DEF K!ApproveWrite, K!ApproveCard
  <2>3. /\ kycProc'[p] = K!Idle /\ alone' = alone /\ (whole' => whole \/ alone = p)
        /\ \A q \in Process : q # p => kycProc'[q] = kycProc[q]
    BY <2>1, KycEnds, IdleKyc, KycMoves
  <2>4. kycProc[p].photo # 0
    BY <2>1, KycLocals DEF K!TypeOK, K!Attempt
  <2>5. alone = p => Agreed'
    BY <2>1, <2>2, <2>4, RepairActive DEF Agreed, K!RowsAgree, SoloRows
  <2>6. SoloRows(p)'
    BY <2>3, IdleKyc DEF SoloRows
  <2> QED
    BY <2>1, <2>3, <2>5, <2>6, IdleKyc, RepairActive, RepairMoves
<1>3. CASE K!RejectWrite(p)
  <2>1. /\ kycProc[p].pc = "reject" /\ K!End(p, FALSE) /\ status' = "REJECTED"
        /\ review' = "REJECTED" /\ UNCHANGED <<face, cardVerified, embedding>>
    BY <1>3 DEF K!RejectWrite, K!Verdict
  <2>2. /\ kycProc'[p] = K!Idle /\ alone' = alone /\ (whole' => whole)
        /\ \A q \in Process : q # p => kycProc'[q] = kycProc[q]
    BY <2>1, KycEnds, IdleKyc, KycMoves
  <2>3. whole => Agreed'
    BY <2>1, RepairActive DEF Agreed, K!RowsAgree, Calm
  <2>4. SoloRows(p)'
    BY <2>2, IdleKyc DEF SoloRows
  <2> QED
    BY <2>1, <2>2, <2>3, <2>4, IdleKyc, RepairActive, RepairMoves
<1> QED
  BY <1>1, <1>2, <1>3

LEMMA RepairCancels ==
  ASSUME K!TypeOK, RepairInv, NEW p \in Process,
         K!CancelWrite(p) \/ \E written \in BOOLEAN : K!CancelCard(p, written)
  PROVE  RepairInv'
<1>1. CASE K!CancelWrite(p)
  <2>1. /\ kycProc[p].pc = "cancel" /\ K!Goto(p, [pc |-> "uncard"])
        /\ status' = "REJECTED" /\ review' = "NOT_REQUESTED" /\ UNCHANGED K!solo
    BY <1>1 DEF K!CancelWrite
  <2>2. [pc |-> "uncard"] \in K!Local
    BY DEF K!Local
  <2>3. /\ kycProc'[p] = [pc |-> "uncard"]
        /\ \A q \in Process : q # p => kycProc'[q] = kycProc[q]
    BY <2>1, <2>2, KycMoves
  <2>4. SoloRows(p)'
    BY <2>1, <2>3 DEF SoloRows
  <2> QED
    BY <2>1, <2>3, <2>4, RepairActive, RepairMoves DEF Calm, K!solo
<1>2. CASE K!CancelCard(p, TRUE)
  <2>1. /\ kycProc[p].pc = "uncard" /\ K!End(p, TRUE)
        /\ UNCHANGED <<status, review, face, embedding>>
    BY <1>2 DEF K!CancelCard
  <2>2. cardVerified' = FALSE
    BY <1>2, Zenon DEF K!CancelCard
  <2>3. /\ kycProc'[p] = K!Idle /\ alone' = alone /\ (whole' => whole \/ alone = p)
        /\ \A q \in Process : q # p => kycProc'[q] = kycProc[q]
    BY <2>1, KycEnds, IdleKyc, KycMoves
  <2>4. alone = p => Agreed'
    BY <2>1, <2>2, RepairActive DEF Agreed, K!RowsAgree, SoloRows
  <2>5. SoloRows(p)'
    BY <2>3, IdleKyc DEF SoloRows
  <2> QED
    BY <2>1, <2>3, <2>4, <2>5, IdleKyc, RepairActive, RepairMoves
<1>3. CASE K!CancelCard(p, FALSE)
  <2>1. K!Goto(p, K!Idle) /\ alone' = None /\ whole' = FALSE
    BY <1>3 DEF K!CancelCard
  <2>2. \A q \in Process : q # p => kycProc'[q] = kycProc[q]
    BY <2>1, IdleKyc, KycMoves
  <2> QED
    BY <2>1, <2>2, KycAssumption, RepairMoves DEF K!ConstantsAssumption
<1> QED
  BY <1>1, <1>2, <1>3

LEMMA RepairFails ==
  ASSUME K!TypeOK, RepairInv, NEW p \in Process,
         K!Fail(p) \/ \E w \in K!Writes : K!WriteFails(p, w)
  PROVE  RepairInv'
<1>1. alone' = None /\ whole' = FALSE /\ \A q \in Process : q # p => kycProc'[q] = kycProc[q]
  BY FailTypes
<1> QED
  BY <1>1, KycAssumption, RepairMoves DEF K!ConstantsAssumption

LEMMA RepairStep == ASSUME K!TypeOK, RepairInv, [K!Next]_K!vars PROVE RepairInv'
<1>1. ASSUME NEW p \in Process, K!Step(p) PROVE RepairInv'
  BY <1>1, RepairBegins, RepairUpload, RepairWrites, RepairVerdicts, RepairCancels, RepairFails
  DEF K!Step
<1>2. CASE (\E t \in Score : K!SetThreshold(t)) \/ UNCHANGED K!vars
  <2>1. UNCHANGED <<K!rows, kycProc, K!solo>>
    BY <1>2 DEF K!SetThreshold, K!vars
  <2> QED
    BY <2>1 DEF K!rows, K!solo, RepairInv, AloneIsAlone, SoloRows, WrittenBy, Agreed,
       K!RowsAgree, Calm
<1> QED
  BY <1>1, <1>2 DEF K!Next

(***************************************************************************)
(* Whatever has been left behind by overlapping requests and lost writes:  *)
(* a registration, an approval or a cancellation that is alone from its    *)
(* beginning to its end leaves the three rows agreeing, in whichever order *)
(* its writes commit, and so they remain until requests overlap or fail.   *)
(***************************************************************************)
THEOREM RowsAreRepaired == K!Spec => []RepairedWhenAlone
<1>1. K!Init => RepairInv
  BY IdleKyc, KycAssumption DEF K!Init, RepairInv, AloneIsAlone, Agreed, K!RowsAgree,
     K!ConstantsAssumption
<1>2. K!TypeOK /\ RepairInv /\ [K!Next]_K!vars => RepairInv'
  BY RepairStep
<1>3. RepairInv => RepairedWhenAlone
  BY DEF RepairInv, Calm, Agreed, RepairedWhenAlone, K!RepairedWhenAlone
<1> QED
  BY <1>1, <1>2, <1>3, KycTypes, PTL DEF K!Spec

-----------------------------------------------------------------------------
(* The three together                                                       *)

(***************************************************************************)
(* What TLC explores as MCAccounts is a behaviour of each of the three     *)
(* modules, so that all of the above holds of it.                          *)
(***************************************************************************)
THEOREM PeopleCompose == Spec => A!Spec /\ L!Spec /\ K!Spec
<1>1. Init => A!Init /\ L!Init /\ K!Init
  BY DEF Init
<1>2. [Next]_vars => [A!Next]_A!vars
  BY DEF Next, vars, account, A!vars, A!account, A!mails, A!history
<1>3. [Next]_vars => [L!Next]_L!vars
  BY DEF Next, vars, roles, L!vars, L!catalogue
<1>4. [Next]_vars => [K!Next]_K!vars
  BY DEF Next, vars, kyc, K!vars, K!rows, K!history, K!solo
<1> QED
  BY <1>1, <1>2, <1>3, <1>4, PTL DEF Spec, A!Spec, L!Spec, K!Spec
=============================================================================
