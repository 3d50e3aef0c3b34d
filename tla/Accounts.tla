------------------------------- MODULE Accounts -------------------------------
(***************************************************************************)
(* The account under one e-mail address: its User row and its UserAuth row *)
(* with password, refresh token, e-mail link, reset code and lock          *)
(* (src/auth, src/users, the daily job of src/tasks).                      *)
(*                                                                         *)
(* A request looks the account up, hashes or compares with bcrypt or waits *)
(* for the mail server, and then updates the UserAuth row by the id of the *)
(* account it found, without a condition.  The update fails when that      *)
(* account has been deleted, whoever has the address by then.              *)
(*                                                                         *)
(* Names, profiles and permission checks are left out.  A refresh token is *)
(* compared by bcrypt, which looks at 72 bytes: the header and the subject *)
(* of the JWT, the same in every token of the account.  What is stored     *)
(* therefore says only whether tokens of the account are accepted.         *)
(***************************************************************************)
EXTENDS Integers, FiniteSets

CONSTANTS
  Process,   \* requests handled at the same time, runs of the job
  Code,      \* e-mail links and reset codes; one is not drawn again while in use
  None,      \* null
  MaxIds     \* bound: accounts made for the address, one after the other

\* What the constants are; the instances assume it.
ConstantsAssumption ==
  /\ IsFiniteSet(Process) /\ MaxIds \in Nat
  /\ None \notin Code

VARIABLES
  id,        \* the User row with the address, or 0
  ids,       \* ids given so far
  auth,      \* the account has a UserAuth row
  known,     \* somebody knows its password (it is not '')
  verified,  \* isEmailVerified
  session,   \* refreshToken is not null
  link,      \* emailVerificationToken
  reset,     \* resetPasswordCode
  locked,    \* isLocked
  overdue,   \* six years have passed since the student enrolled
  inbox,     \* codes that have been mailed and are not superseded
  expired,   \* codes past their expiry
  proc,      \* where each process is and what it has read
  used,      \* history: passwords set with the present reset code or the last one
  entered    \* history: logins completed since the account was barred

account == <<id, ids, auth, known, verified, session, link, reset, locked, overdue>>
mails == <<inbox, expired>>
history == <<used, entered>>
vars == <<account, mails, proc, history>>

Idle == [pc |-> "idle", id |-> 0, code |-> None]

\* id: the account the request has found or made; code: what it was sent or drew.
Local == [pc : {"idle", "register", "credentials", "create", "made", "undo", "login",
                "autolock", "refresh", "forgot", "mail", "reset", "verify", "resend"},
          id : 0..MaxIds, code : Code \cup {None}]

TypeOK ==
  /\ id \in 0..MaxIds /\ ids \in 0..MaxIds
  /\ auth \in BOOLEAN /\ known \in BOOLEAN /\ verified \in BOOLEAN /\ session \in BOOLEAN
  /\ link \in Code \cup {None} /\ reset \in Code \cup {None}
  /\ locked \in BOOLEAN /\ overdue \in BOOLEAN
  /\ inbox \subseteq Code /\ expired \subseteq Code
  /\ proc \in [Process -> Local]
  /\ used \in Nat /\ entered \in Nat

Init ==
  /\ id = 0 /\ ids = 0
  /\ auth = FALSE /\ known = FALSE /\ verified = FALSE /\ session = FALSE
  /\ link = None /\ reset = None
  /\ locked = FALSE /\ overdue = FALSE
  /\ inbox = {} /\ expired = {}
  /\ proc = [p \in Process |-> Idle]
  /\ used = 0 /\ entered = 0

Goto(p, label, found, code) ==
  proc' = [proc EXCEPT ![p] = [pc |-> label, id |-> found, code |-> code]]
End(p) == proc' = [proc EXCEPT ![p] = Idle]

\* The UserAuth row of the account that p has found is still there.
Reaches(p) == id # 0 /\ id = proc[p].id /\ auth

\* Codes nobody refers to any more.
Fresh == Code \ ({link, reset} \cup {proc[p].code : p \in Process})

\* c is drawn.
Draw(c) == inbox' = inbox \ {c} /\ expired' = expired \ {c}

Barred == locked \/ overdue

-----------------------------------------------------------------------------
(* register *)

RegisterRead(p) ==
  /\ proc[p].pc = "idle"
  /\ id = 0
  /\ Goto(p, "register", 0, None)
  /\ UNCHANGED <<account, mails, history>>

\* user.create with the student's profile; the address is unique.
RegisterUser(p) ==
  /\ proc[p].pc = "register"
  /\ IF id = 0 /\ ids < MaxIds
       THEN /\ id' = ids + 1 /\ ids' = ids + 1
            /\ Goto(p, "credentials", ids + 1, None)
       ELSE End(p) /\ UNCHANGED <<id, ids>>
  /\ UNCHANGED <<auth, known, verified, session, link, reset, locked, overdue, mails, history>>

\* userAuth.create, unless the account is gone or has been given a row meanwhile.
RegisterAuth(p, c) ==
  /\ proc[p].pc = "credentials"
  /\ c \in Fresh
  /\ IF id = proc[p].id /\ ~auth
       THEN /\ auth' = TRUE /\ known' = TRUE /\ link' = c
            /\ Draw(c)
            /\ Goto(p, "mail", id, c)
       ELSE End(p) /\ UNCHANGED <<auth, known, link, mails>>
  /\ UNCHANGED <<id, ids, verified, session, reset, locked, overdue, history>>

-----------------------------------------------------------------------------
(* UsersService.create and importStudents: accounts made by staff *)

CreateRead(p) ==
  /\ proc[p].pc = "idle"
  /\ id = 0
  /\ Goto(p, "create", 0, None)
  /\ UNCHANGED <<account, mails, history>>

\* The user with the credentials, whose password is made from the date of birth.
Make ==
  /\ id = 0 /\ ids < MaxIds
  /\ id' = ids + 1 /\ ids' = ids + 1
  /\ auth' = TRUE /\ known' = TRUE /\ verified' = TRUE
  /\ UNCHANGED <<session, link, reset, locked, overdue, mails, history>>

CreateWrite(p) ==
  /\ proc[p].pc = "create"
  /\ \/ Make /\ Goto(p, "made", ids + 1, None)
     \/ (id # 0 \/ ids = MaxIds) /\ End(p) /\ UNCHANGED <<account, mails, history>>

\* The credentials are mailed, and that is all.
CreateMailed(p) == proc[p].pc = "made" /\ End(p) /\ UNCHANGED <<account, mails, history>>

\* A row of an import looks nothing up and sends no mail.
ImportStudent == Make /\ UNCHANGED proc

\* The credentials could not be mailed.
CreateMailFails(p) ==
  /\ proc[p].pc = "made"
  /\ Goto(p, "undo", proc[p].id, None)
  /\ UNCHANGED <<account, mails, history>>

\* user.delete takes the UserAuth row along.
Erase ==
  /\ id' = 0 /\ auth' = FALSE /\ known' = FALSE /\ verified' = FALSE /\ session' = FALSE
  /\ link' = None /\ reset' = None /\ locked' = FALSE
  /\ inbox' = {} /\ used' = 0 /\ entered' = 0
  /\ UNCHANGED <<ids, overdue, expired>>

CreateUndo(p) ==
  /\ proc[p].pc = "undo"
  /\ End(p)
  /\ IF id = proc[p].id THEN Erase ELSE UNCHANGED <<account, mails, history>>

-----------------------------------------------------------------------------
(* validateUserCredentials, login and boothLogin *)

\* Mutant of MayLogin: the lock is not looked at.
MayLoginLocked == auth /\ ~overdue /\ known /\ verified

MayLogin == auth /\ ~locked /\ ~overdue /\ known /\ verified

LoginRead(p) ==
  /\ proc[p].pc = "idle"
  /\ MayLogin
  /\ Goto(p, "login", id, None)
  /\ UNCHANGED <<account, mails, history>>

LoginWrite(p) ==
  /\ proc[p].pc = "login"
  /\ End(p)
  /\ IF Reaches(p)
       THEN session' = TRUE /\ entered' = IF Barred THEN entered + 1 ELSE entered
       ELSE UNCHANGED <<session, entered>>
  /\ UNCHANGED <<id, ids, auth, known, verified, link, reset, locked, overdue, mails, used>>

\* The login of a student who enrolled too long ago locks the account.
LoginOverdue(p) ==
  /\ proc[p].pc = "idle"
  /\ auth /\ ~locked /\ overdue
  /\ Goto(p, "autolock", id, None)
  /\ UNCHANGED <<account, mails, history>>

LoginLock(p) ==
  /\ proc[p].pc = "autolock"
  /\ End(p)
  /\ IF Reaches(p) THEN locked' = TRUE ELSE UNCHANGED locked
  /\ UNCHANGED <<id, ids, auth, known, verified, session, link, reset, overdue, mails, history>>

-----------------------------------------------------------------------------
(* refresh and logout *)

RefreshRead(p) ==
  /\ proc[p].pc = "idle"
  /\ session
  /\ Goto(p, "refresh", id, None)
  /\ UNCHANGED <<account, mails, history>>

RefreshWrite(p) ==
  /\ proc[p].pc = "refresh"
  /\ End(p)
  /\ session' = (session \/ Reaches(p))
  /\ UNCHANGED <<id, ids, auth, known, verified, link, reset, locked, overdue, mails, history>>

Logout ==
  /\ auth
  /\ session' = FALSE
  /\ UNCHANGED <<id, ids, auth, known, verified, link, reset, locked, overdue, mails, proc,
                 history>>

-----------------------------------------------------------------------------
(* forgotPassword and resetPassword *)

ForgotRead(p) ==
  /\ proc[p].pc = "idle"
  /\ id # 0
  /\ Goto(p, "forgot", id, None)
  /\ UNCHANGED <<account, mails, history>>

ForgotWrite(p, c) ==
  /\ proc[p].pc = "forgot"
  /\ c \in Fresh
  /\ IF Reaches(p)
       THEN /\ reset' = c
            /\ Draw(c)
            /\ used' = 0
            /\ Goto(p, "mail", id, c)
       ELSE End(p) /\ UNCHANGED <<reset, mails, used>>
  /\ UNCHANGED <<id, ids, auth, known, verified, session, link, locked, overdue, entered>>

\* The mail with the link or the code arrives, unless it is out of date by then.
MailArrives(p) ==
  /\ proc[p].pc = "mail"
  /\ inbox' = inbox \cup ({proc[p].code} \cap {link, reset})
  /\ End(p)
  /\ UNCHANGED <<account, expired, history>>

ResetRead(p, c) ==
  /\ proc[p].pc = "idle"
  /\ c \in inbox \ expired
  /\ reset = c
  /\ Goto(p, "reset", id, c)
  /\ UNCHANGED <<account, mails, history>>

\* Mutant of SpendCode: the code stays.
SpendNothing == UNCHANGED reset

\* resetPasswordCode is cleared, whatever it has become.
SpendCode == reset' = None

ResetWrite(p) ==
  /\ proc[p].pc = "reset"
  /\ End(p)
  /\ IF Reaches(p)
       THEN /\ SpendCode
            /\ known' = TRUE /\ session' = FALSE
            /\ used' = used + 1
       ELSE UNCHANGED <<reset, known, session, used>>
  /\ UNCHANGED <<id, ids, auth, verified, link, locked, overdue, mails, entered>>

-----------------------------------------------------------------------------
(* verifyEmail and resendVerificationEmail *)

VerifyRead(p, c) ==
  /\ proc[p].pc = "idle"
  /\ c \in inbox \ expired
  /\ link = c
  /\ Goto(p, "verify", id, c)
  /\ UNCHANGED <<account, mails, history>>

VerifyWrite(p) ==
  /\ proc[p].pc = "verify"
  /\ End(p)
  /\ IF Reaches(p)
       THEN verified' = TRUE /\ link' = None
       ELSE UNCHANGED <<verified, link>>
  /\ UNCHANGED <<id, ids, auth, known, session, reset, locked, overdue, mails, history>>

\* An account without a UserAuth row counts as not verified.
ResendRead(p) ==
  /\ proc[p].pc = "idle"
  /\ id # 0 /\ ~verified
  /\ Goto(p, "resend", id, None)
  /\ UNCHANGED <<account, mails, history>>

\* An upsert: a missing row is made, with a password nobody knows.
ResendWrite(p, c) ==
  /\ proc[p].pc = "resend"
  /\ c \in Fresh
  /\ IF id = proc[p].id
       THEN /\ auth' = TRUE
            /\ link' = c
            /\ Draw(c)
            /\ Goto(p, "mail", id, c)
       ELSE End(p) /\ UNCHANGED <<auth, link, mails>>
  /\ UNCHANGED <<id, ids, known, verified, session, reset, locked, overdue, history>>

-----------------------------------------------------------------------------
(* update, remove, and the daily job.  Each upserts or deletes by the id it *)
(* was asked for, and reads nothing it writes.                              *)

\* Locked, unlocked or not touched (None), and the password of a new date of birth.
Update(lock, password) ==
  /\ id # 0 /\ (password \/ lock # None)
  /\ auth' = TRUE
  /\ locked' = (IF lock = None THEN locked ELSE lock)
  /\ known' = (known \/ password)
  /\ entered' = IF overdue \/ locked' THEN entered ELSE 0
  /\ UNCHANGED <<id, ids, verified, session, link, reset, overdue, mails, proc, used>>

Remove == id # 0 /\ Erase /\ UNCHANGED proc

\* The job locks the accounts of students who enrolled six years ago or earlier.
AutoLock ==
  /\ overdue /\ id # 0
  /\ auth' = TRUE /\ locked' = TRUE
  /\ UNCHANGED <<id, ids, known, verified, session, link, reset, overdue, mails, proc,
                 history>>

-----------------------------------------------------------------------------
(* The environment *)

NewYear ==
  /\ ~overdue
  /\ overdue' = TRUE
  /\ UNCHANGED <<id, ids, auth, known, verified, session, link, reset, locked, mails, proc,
                 history>>

Expire(c) ==
  /\ c \in {link, reset} \ {None}
  /\ c \notin expired
  /\ expired' = expired \cup {c}
  /\ UNCHANGED <<account, inbox, proc, history>>

\* A call the process awaits is rejected, or the server restarts.
Fail(p) ==
  /\ proc[p].pc # "idle"
  /\ End(p)
  /\ UNCHANGED <<account, mails, history>>

StaffStep ==
  \/ \E lock \in {TRUE, FALSE, None}, password \in BOOLEAN : Update(lock, password)
  \/ ImportStudent \/ Remove \/ AutoLock

\* What a process does next once it has begun.
Goes(p) ==
  \/ RegisterUser(p) \/ CreateWrite(p) \/ LoginWrite(p) \/ LoginLock(p) \/ RefreshWrite(p)
  \/ MailArrives(p) \/ ResetWrite(p) \/ VerifyWrite(p) \/ CreateMailed(p) \/ CreateMailFails(p)
  \/ CreateUndo(p)
  \/ \E c \in Code : RegisterAuth(p, c) \/ ForgotWrite(p, c) \/ ResendWrite(p, c)

Begins(p) ==
  \/ RegisterRead(p) \/ CreateRead(p) \/ LoginRead(p) \/ LoginOverdue(p) \/ RefreshRead(p)
  \/ ForgotRead(p) \/ ResendRead(p)
  \/ \E c \in Code : ResetRead(p, c) \/ VerifyRead(p, c)

Next ==
  \/ \E p \in Process : Begins(p) \/ Goes(p) \/ Fail(p)
  \/ StaffStep \/ Logout \/ NewYear
  \/ \E c \in Code : Expire(c)

Spec == Init /\ [][Next]_vars

-----------------------------------------------------------------------------
(* Properties *)

(***************************************************************************)
(* An account that is locked, by staff or because the student enrolled six *)
(* years ago, is entered only by logins that had found it open: at most    *)
(* one for each request in flight, however often it is locked and unlocked.*)
(***************************************************************************)
BarredMeansOut == Barred => entered <= Cardinality(Process)

(***************************************************************************)
(* resetPassword compares the code, hashes the new password and only then  *)
(* clears the code.  A code sets at most one password for each request     *)
(* that was under way when it was used first.                              *)
(***************************************************************************)
CodeIsSpent == used <= Cardinality(Process)

=============================================================================
