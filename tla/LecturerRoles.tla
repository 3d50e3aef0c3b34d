---------------------------- MODULE LecturerRoles ----------------------------
(***************************************************************************)
(* Who may manage whom among lecturers (src/users, src/common/             *)
(* authorization).  Roles have priorities, 1 being the highest.  ADMIN     *)
(* keeps the catalogue and manages everybody.  A lecturer whose role, or   *)
(* whose own permissions, hold LECTURER_ADMIN manages those who rank below.*)
(*                                                                         *)
(* A request reads permissions, the target and the new role (one step      *)
(* here), then the requester, and then writes without a condition.         *)
(*                                                                         *)
(* Own permissions are constant: updateLecturerPermissions writes rows for *)
(* the user's id where the schema wants the lecturer's, so a list that is  *)
(* not empty is rejected and an empty one deletes nothing.                 *)
(***************************************************************************)
EXTENDS Integers, FiniteSets

CONSTANTS
  Lecturer, Chief,  \* the lecturers; the one who holds the highest role at first
  Role, Top,        \* the roles there can be; the highest one at first
  Own,              \* lecturers with LECTURER_ADMIN among their own permissions
  Admin,            \* the requester ADMIN
  None,             \* null
  Process,          \* requests handled at the same time
  MaxPriority       \* bound: the lowest priority

\* What the constants are; the instances assume it.
ConstantsAssumption ==
  /\ Chief \in Lecturer /\ Own \subseteq Lecturer
  /\ Top \in Role /\ MaxPriority \in Nat
  /\ None \notin Role \cup Lecturer \cup 1..MaxPriority /\ Admin \notin Lecturer /\ None # Admin

VARIABLES
  listed,    \* the roles that exist
  priority,  \* LecturerRole.priority
  active,    \* roles with isActive
  admins,    \* roles with the permission LECTURER_ADMIN
  role,      \* Lecturer.lecturerRole
  locked,    \* lecturers with isLocked
  proc,      \* where each process is and what it has read
  byAdmin    \* history: lecturers whose role is the one ADMIN gave them last

catalogue == <<listed, priority, active, admins>>
vars == <<catalogue, role, locked, proc, byAdmin>>

Idle == [pc |-> "idle"]
Task == {"lock", "unlock", "update", "assign"}

\* new: the role to assign, or None to take the role away; a rank is the
\* priority of a role as it was read, None without a role.
Rank == 1..MaxPriority \cup {None}
Asking == [pc : {"check"}, task : Task, by : Lecturer, target : Lecturer,
           new : Role \cup {None}, rank : Rank, newRank : Rank]
Allowed == [pc : {"write"}, task : Task, byAdmin : BOOLEAN, target : Lecturer,
            new : Role \cup {None}]

Local == {Idle} \cup Asking \cup Allowed \cup [pc : {"delete"}, role : Role]

TypeOK ==
  /\ listed \subseteq Role /\ active \subseteq Role /\ admins \subseteq Role
  /\ priority \in [Role -> 1..MaxPriority]
  /\ role \in [Lecturer -> Role \cup {None}]
  /\ locked \subseteq Lecturer
  /\ proc \in [Process -> Local]
  /\ byAdmin \subseteq Lecturer

\* The highest role among some of them, by priority.
Highest(roles) == {r \in roles : \A q \in roles : priority[r] <= priority[q]}

Init ==
  /\ listed = Role /\ active = Role /\ admins = Role
  /\ priority \in [Role -> 1..MaxPriority]
  /\ \A q, r \in Role : priority[q] = priority[r] => q = r
  /\ Highest(Role) = {Top}
  /\ role = [x \in Lecturer |-> IF x = Chief THEN Top ELSE None]
  /\ locked = {}
  /\ proc = [p \in Process |-> Idle]
  /\ byAdmin = {}

Goto(p, next) == proc' = [proc EXCEPT ![p] = next]
End(p) == Goto(p, Idle)

RankOf(r) == IF r = None THEN None ELSE priority[r]

\* canManageLecturerPermissions, with the permissions of a role that may be inactive.
MayManage(x) == x \in {Admin} \cup Own \cup {y \in Lecturer : role[y] \in admins}

\* The order at the top: Top ranks highest, and some role is active.  What
\* follows is about lecturers, and ADMIN is assumed to leave this as it is.
Orderly == Top \in listed /\ Highest(listed) = {Top} /\ active # {}

-----------------------------------------------------------------------------
(* lockLecturer, unlockLecturer, updateLecturer, assignLecturerRole *)

\* What a request that is allowed will write.
Write(isAdmin, task, y, new) ==
  [pc |-> "write", task |-> task, byAdmin |-> isAdmin, target |-> y, new |-> new]

\* The requester's permissions and the target's rank are read, and what the role
\* to assign ranks (queries of their own, taken together here).  ADMIN is not asked
\* for a rank.
Ask(p, x, task, y, new) ==
  /\ proc[p].pc = "idle"
  /\ MayManage(x)
  /\ x # y
  /\ x = Admin => y # Chief
  /\ Goto(p, IF x = Admin THEN Write(TRUE, task, y, new)
              ELSE [pc |-> "check", task |-> task, by |-> x, target |-> y, new |-> new,
                    rank |-> RankOf(role[y]), newRank |-> RankOf(new)])
  /\ UNCHANGED <<catalogue, role, locked, byAdmin>>

\* Mutant of Below: a lecturer may manage one of the same rank.
BelowOrEqual(rank, limit) == rank = None \/ rank >= limit

\* Somebody without a role ranks below everybody.
Below(rank, limit) == rank = None \/ rank > limit

\* The priority of the highest active role, if there is one.
TopActive == {priority[r] : r \in Highest(active \cap listed)}

\* The requester's rank is read, or else the highest there is.
Check(p, task) ==
  LET ask == proc[p]
      limits == IF role[ask.by] # None THEN {priority[role[ask.by]]} ELSE TopActive
  IN
  /\ ask.pc = "check" /\ ask.task = task
  /\ IF \A limit \in limits : Below(ask.rank, limit) /\ Below(ask.newRank, limit)
       THEN Goto(p, Write(FALSE, task, ask.target, ask.new))
       ELSE End(p)
  /\ UNCHANGED <<catalogue, role, locked, byAdmin>>

Writes(p, task) == proc[p].pc = "write" /\ proc[p].task = task /\ End(p)

SetLock(p, set) ==
  /\ locked' = set
  /\ UNCHANGED <<catalogue, role, byAdmin>>

LockRead(p, x, y) == Ask(p, x, "lock", y, None)
LockCheck(p) == Check(p, "lock")
LockWrite(p) == Writes(p, "lock") /\ SetLock(p, locked \cup {proc[p].target})

UnlockRead(p, x, y) == Ask(p, x, "unlock", y, None)
UnlockCheck(p) == Check(p, "unlock")
UnlockWrite(p) == Writes(p, "unlock") /\ SetLock(p, locked \ {proc[p].target})

\* Besides name and password an update may set the lock either way.
UpdateRead(p, x, y) == Ask(p, x, "update", y, None)
UpdateCheck(p) == Check(p, "update")
UpdateWrite(p) ==
  /\ Writes(p, "update")
  /\ \E set \in {locked, locked \cup {proc[p].target}, locked \ {proc[p].target}} :
       SetLock(p, set)

AssignRead(p, x, y, new) ==
  /\ new \in (listed \cap active) \cup {None}
  /\ Ask(p, x, "assign", y, new)
AssignCheck(p) == Check(p, "assign")

\* A role that has been deleted meanwhile is rejected by its foreign key.
AssignWrite(p) ==
  LET y == proc[p].target IN
  /\ Writes(p, "assign")
  /\ IF proc[p].new \in listed \cup {None} /\ role[y] # proc[p].new
       THEN /\ role' = [role EXCEPT ![y] = proc[p].new]
            /\ byAdmin' = IF proc[p].byAdmin THEN byAdmin \cup {y} ELSE byAdmin \ {y}
       ELSE UNCHANGED <<role, byAdmin>>
  /\ UNCHANGED <<catalogue, locked>>

-----------------------------------------------------------------------------
(* createLecturerRole, updateLecturerRole, removeLecturerRole: ADMIN only *)

\* Priorities are unique.
Free(n, r) == \A q \in listed \ {r} : priority[q] # n

\* A deleted role's id is not given again while a request still has it.
Mentioned(r) == \E p \in Process : proc[p].pc \in {"check", "write"} /\ proc[p].new = r

Save(r, n, isActive, isAdmin) ==
  /\ Free(n, r)
  /\ listed' = listed \cup {r}
  /\ priority' = [priority EXCEPT ![r] = n]
  /\ active' = IF isActive THEN active \cup {r} ELSE active \ {r}
  /\ admins' = IF isAdmin THEN admins \cup {r} ELSE admins \ {r}
  /\ UNCHANGED <<role, locked, proc, byAdmin>>
  /\ Orderly' /\ priority'[Top] = priority[Top]

CreateRole(r, n, isActive, isAdmin) ==
  r \notin listed /\ ~Mentioned(r) /\ Save(r, n, isActive, isAdmin)

\* Priority, isActive and permissions, some of them as they were.
UpdateRole(r, n, isActive, isAdmin) == r \in listed /\ Save(r, n, isActive, isAdmin)

\* The count of the role's members.
RemoveRead(p, r) ==
  /\ proc[p].pc = "idle"
  /\ r \in listed
  /\ \A y \in Lecturer : role[y] # r
  /\ Goto(p, [pc |-> "delete", role |-> r])
  /\ UNCHANGED <<catalogue, role, locked, byAdmin>>

\* Who has been given the role meanwhile loses it (ON DELETE SET NULL).
RemoveWrite(p) ==
  LET r == proc[p].role IN
  /\ proc[p].pc = "delete"
  /\ End(p)
  /\ listed' = listed \ {r}
  /\ active' = active \ {r} /\ admins' = admins \ {r}
  /\ role' = [y \in Lecturer |-> IF role[y] = r THEN None ELSE role[y]]
  /\ UNCHANGED <<priority, locked, byAdmin>>
  /\ Orderly'

-----------------------------------------------------------------------------
\* A call the process awaits is rejected, or the server restarts.
Fail(p) ==
  /\ proc[p].pc # "idle"
  /\ End(p)
  /\ UNCHANGED <<catalogue, role, locked, byAdmin>>

Step(p) ==
  \/ \E x \in Lecturer \cup {Admin}, y \in Lecturer :
       \/ LockRead(p, x, y) \/ UnlockRead(p, x, y) \/ UpdateRead(p, x, y)
       \/ \E new \in Role \cup {None} : AssignRead(p, x, y, new)
  \/ LockCheck(p) \/ UnlockCheck(p) \/ UpdateCheck(p) \/ AssignCheck(p)
  \/ LockWrite(p) \/ UnlockWrite(p) \/ UpdateWrite(p) \/ AssignWrite(p)
  \/ \E r \in Role : RemoveRead(p, r)
  \/ RemoveWrite(p)
  \/ Fail(p)

Next ==
  \/ \E p \in Process : Step(p)
  \/ \E r \in Role, n \in 1..MaxPriority, isActive, isAdmin \in BOOLEAN :
       CreateRole(r, n, isActive, isAdmin) \/ UpdateRole(r, n, isActive, isAdmin)

Spec == Init /\ [][Next]_vars

-----------------------------------------------------------------------------
(* Properties *)

(***************************************************************************)
(* "Vui long nho ADMIN thao tac" (assignLecturerRole): what concerns the   *)
(* highest role is left to ADMIN.  Whatever lecturers do, each from ranks  *)
(* read before, and however they have been promoted, demoted or left       *)
(* without a role by each other: nobody but ADMIN gives somebody the       *)
(* highest role, and nobody but ADMIN locks or moves its first holder.     *)
(***************************************************************************)
TopIsForAdmin ==
  /\ role[Chief] = Top /\ Chief \notin locked
  /\ \A y \in Lecturer \ {Chief} : role[y] = Top => y \in byAdmin
=============================================================================
